---- MODULE Spec2Model ----
(***************************************************************************)
(* A model of notifier-api:                                                *)
(*   - the Redis backed queue of app/queue.py (publish / poll /            *)
(*     acknowledge and the Lua script that moves items in flight);         *)
(*   - the Pinpoint receipt reconciler of                                  *)
(*     app/celery/process_pinpoint_receipts_tasks.py and the service       *)
(*     callback task of app/celery/service_callback_tasks.py;              *)
(*   - the signer of app/encryption.py and the permission and contact      *)
(*     lookups of app/celery;                                              *)
(*   - the POST notification handler, the verify codes of a user, the      *)
(*     Zendesk Sell client, the routing database session and the VA        *)
(*     Profile opt-in/out lambda.                                          *)
(***************************************************************************)
EXTENDS Integers, Sequences, FiniteSets, TLC

VARIABLES
    redis,        \* the Redis keyspace: key -> list (an absent key is the empty list)
    published,    \* number of messages ever pushed on the inbox (the next message is published + 1)
    nextReceipt,  \* the receipts minted so far are 1 .. nextReceipt - 1 (uuid4 is fresh)
    pending,      \* poll calls that minted their receipt and have not run the script yet
    pollLog,      \* receipt -> what the poll that minted it was asked and what it returned
    ackCalls,     \* receipt -> number of acknowledge calls made with it
    ops,          \* number of queue operations made so far
    notification, \* the row of the notifications table for the one reference, or NoNotification
    service_callback_api, \* whether the owning service registered a delivery-status callback
    tasks,        \* the process-pinpoint-result tasks: delivery number -> task
    updates,      \* number of calls of _update_notification_status made so far
    callbacks,    \* the send-delivery-status tasks put on the callbacks queue, oldest first
    lookup,       \* the lookup-recipient-communication-permissions task and its notification
    signing,      \* the value, salts and token of one use of the CryptoSigner
    post,         \* the POST /v2/notifications requests served and the rows and tasks they left
    contact,      \* the lookup-contact-info tasks and their notifications
    zendesk,      \* the contacts and deals of Zendesk Sell and the calls of send_create_service
    users,        \* the users, their verify codes and the 2fa requests in progress
    session,      \* the ExplicitRoutingSession: the bind named, the flush flag, the binds returned
    optin         \* the invocations of the VA Profile opt-in/out lambda and what they put

qvars == <<redis, published, nextReceipt, pending, pollLog, ackCalls, ops>>
rvars == <<notification, service_callback_api, tasks, updates, callbacks>>
yvars == <<post, contact, zendesk, users, session, optin>>
xvars == <<lookup, signing, yvars>>
vars == <<qvars, rvars, xvars>>

----------------------------------------------------------------------------
(* Bounds of the model *)

\* queue operations (publish, poll and acknowledge calls) in one behaviour
MaxOps == 5
\* poll calls (receipts minted) in one behaviour
MaxReceipts == 2

\* messages already waiting in the inbox when the queue object is constructed
\* (the constructor does not touch the Redis lists)
InboxLens == {0, 101}

\* the count arguments poll is called with
PollCounts == {1, 3, 100, 101}

----------------------------------------------------------------------------
(* Program constants *)

\* the chunk of the Lua script: LRANGE s 0 99, LTRIM s 100 -1, j = j + 100
ChunkSize == 100

\* Buffer.INBOX.value
INBOX == <<"INBOX">>

\* f"{Buffer.IN_FLIGHT.value}:{str(receipt)}"
get_inflight_name(receipt) == <<"IN-FLIGHT", receipt>>

\* receipts: 1 .. MaxReceipts are minted by poll, MaxReceipts + 1 is a
\* receipt no poll ever issues
Receipts == 1 .. MaxReceipts
UnknownReceipt == MaxReceipts + 1
AllReceipts == 1 .. UnknownReceipt

Keys == {INBOX} \cup {get_inflight_name(r) : r \in AllReceipts}

Min(a, b) == IF a < b THEN a ELSE b
Max(a, b) == IF a < b THEN b ELSE a

Reverse(s) == [k \in 1 .. Len(s) |-> s[Len(s) + 1 - k]]

SeqToSet(s) == {s[k] : k \in 1 .. Len(s)}

----------------------------------------------------------------------------
(* The wire format: json.dumps(serializable.serialize()) and json.loads *)

json_dumps(m) == <<"json", m>>
json_loads(s) == s[2]

\* the serialized messages number from .. to, in publish order
Range(from, to) == [k \in 1 .. Max(to - from + 1, 0) |-> json_dumps(from + k - 1)]

----------------------------------------------------------------------------
(* The Redis commands the queue uses, on a keyspace db *)

\* a list index as Redis reads it: negative indexes count from the tail
Index(n, len) == IF n < 0 THEN len + n ELSE n

LLEN(db, k) == Len(db[k])

\* LRANGE k start stop: zero based, both ends included, clipped to the list
LRANGE(db, k, start, stop) ==
    LET len == Len(db[k])
        a == Max(Index(start, len), 0)
        b == Min(Index(stop, len), len - 1)
    IN  SubSeq(db[k], a + 1, b + 1)

\* (mutant) the values replace what the list held
LPUSH_overwrite(db, k, values) == [db EXCEPT ![k] = Reverse(values)]

\* LPUSH k v1 v2 ...: each value in turn is put at the head
LPUSH(db, k, values) == [db EXCEPT ![k] = Reverse(values) \o db[k]]

\* RPUSH k v: the value is put at the tail
RPUSH(db, k, value) == [db EXCEPT ![k] = Append(db[k], value)]

\* (mutant) the trim is forgotten
LTRIM_forgotten(db, k, start, stop) == db

\* LTRIM k start stop: only the elements start .. stop stay
LTRIM(db, k, start, stop) == [db EXCEPT ![k] = LRANGE(db, k, start, stop)]

\* DEL k: the key is removed; a missing key is not an error
DEL(db, k) == [db EXCEPT ![k] = <<>>]

----------------------------------------------------------------------------
(* The Lua script "move-in-inflight" (Redis runs a script atomically) *)

\* (mutant) each chunk is collected in front of the chunks before it
RECURSIVE MoveLoop_prepend(_, _, _, _, _, _)
MoveLoop_prepend(db, s, d, i, j, elems) ==
    IF j < i
    THEN LET l   == LRANGE(db, s, 0, ChunkSize - 1)
             db1 == LPUSH(db, d, l)
             db2 == LTRIM(db1, s, ChunkSize, -1)
         IN  MoveLoop_prepend(db2, s, d, i, j + ChunkSize, l \o elems)
    ELSE [db |-> db, elems |-> elems]

\* the while loop of the script: j counts the items asked for in steps of a
\* chunk, each turn moves the first chunk of s onto d and collects it
RECURSIVE MoveLoop(_, _, _, _, _, _)
MoveLoop(db, s, d, i, j, elems) ==
    IF j < i
    THEN LET l   == LRANGE(db, s, 0, ChunkSize - 1)
             db1 == LPUSH(db, d, l)
             db2 == LTRIM(db1, s, ChunkSize, -1)
         IN  MoveLoop(db2, s, d, i, j + ChunkSize, elems \o l)
    ELSE [db |-> db, elems |-> elems]

\* (mutant) the count is ignored: the whole inbox is moved
MoveScript_nocap(db, s, d, count) == MoveLoop(db, s, d, LLEN(db, s), 0, <<>>)

\* local i = math.min(tonumber(redis.call("LLEN", s)), tonumber(ARGV[3]))
MoveScript(db, s, d, count) == MoveLoop(db, s, d, Min(LLEN(db, s), count), 0, <<>>)

\* RedisQueue.__move_to_inflight: runs the script and decodes what it returns
move_to_inflight(db, in_flight_key, count) ==
    LET res == MoveScript(db, INBOX, in_flight_key, count)
    IN  [db |-> res.db, results |-> [k \in 1 .. Len(res.elems) |-> json_loads(res.elems[k])]]

\* (mutant) the message is pushed at the head of the inbox
publish_lpush(db, message) == LPUSH(db, INBOX, <<json_dumps(message)>>)

\* RedisQueue.publish: the keyspace after rpush(INBOX, json.dumps(...))
publish(db, message) == RPUSH(db, INBOX, json_dumps(message))

\* (mutant) the in-flight items are put back on the inbox
acknowledge_requeue(db, receipt) ==
    [db EXCEPT ![INBOX] = @ \o Reverse(db[get_inflight_name(receipt)]),
               ![get_inflight_name(receipt)] = <<>>]

\* (mutant) every in-flight list is deleted
acknowledge_all(db, receipt) == [k \in DOMAIN db |-> IF k = INBOX THEN db[k] ELSE <<>>]

\* RedisQueue.acknowledge: the keyspace after delete(get_inflight_name(receipt))
acknowledge(db, receipt) == DEL(db, get_inflight_name(receipt))

----------------------------------------------------------------------------
(* The queue as a state machine *)

NoPoll == [count |-> -1, before |-> 0, after |-> 0, items |-> <<>>, acked |-> {}]

\* pollLog[r]: the count the poll was called with, the length of the inbox
\* before and after its script ran, the items it returned and the receipts
\* that had been acknowledged when it ran

\* a receipt whose poll has returned
Polled(r) == r \in Receipts /\ pollLog[r].count >= 0

\* the receipts acknowledge was called with
Acked == {r \in AllReceipts : ackCalls[r] > 0}

inbox == redis[INBOX]
inflight(r) == redis[get_inflight_name(r)]

QueueInit ==
    /\ published \in InboxLens
    /\ redis = [k \in Keys |-> IF k = INBOX THEN Range(1, published) ELSE <<>>]
    /\ ops = 0
    /\ nextReceipt = 1
    /\ pending = {}
    /\ pollLog = [r \in Receipts |-> NoPoll]
    /\ ackCalls = [r \in AllReceipts |-> 0]

\* RedisQueue.publish: a producer publishes the next message
Publish ==
    /\ ops' = ops + 1
    /\ redis' = publish(redis, published + 1)
    /\ published' = published + 1
    /\ UNCHANGED <<nextReceipt, pending, pollLog, ackCalls, rvars, xvars>>

\* RedisQueue.poll, up to the call of the script: receipt = uuid4()
PollBegin(count) ==
    /\ nextReceipt <= MaxReceipts
    /\ ops' = ops + 1
    /\ pending' = pending \cup {[receipt |-> nextReceipt, count |-> count]}
    /\ nextReceipt' = nextReceipt + 1
    /\ UNCHANGED <<redis, published, pollLog, ackCalls, rvars, xvars>>

\* RedisQueue.poll, the script and the return of (receipt, results)
PollScript(call) ==
    /\ call \in pending
    /\ LET res == move_to_inflight(redis, get_inflight_name(call.receipt), call.count)
       IN  /\ redis' = res.db
           /\ pollLog' = [pollLog EXCEPT ![call.receipt] =
                             [count  |-> call.count,
                              before |-> Len(inbox),
                              after  |-> Len(res.db[INBOX]),
                              items  |-> res.results,
                              acked  |-> Acked]]
    /\ pending' = pending \ {call}
    /\ UNCHANGED <<published, nextReceipt, ackCalls, ops, rvars, xvars>>

\* RedisQueue.acknowledge, called with a receipt a poll returned or with a
\* receipt that was never issued
Acknowledge(receipt) ==
    /\ Polled(receipt) \/ receipt = UnknownReceipt
    /\ ops' = ops + 1
    /\ redis' = acknowledge(redis, receipt)
    /\ ackCalls' = [ackCalls EXCEPT ![receipt] = @ + 1]
    /\ UNCHANGED <<published, nextReceipt, pending, pollLog, rvars, xvars>>

----------------------------------------------------------------------------
(* The Pinpoint receipt reconciler: process_pinpoint_receipts_tasks.py *)

\* provider receipts handed to process-pinpoint-result in one behaviour
MaxDeliveries == 2

\* @notify_celery.task(..., max_retries=5, ...)
max_retries == 5

None == "None"

NOTIFICATION_CREATED == "created"
NOTIFICATION_SENDING == "sending"
NOTIFICATION_SENT == "sent"
NOTIFICATION_PENDING == "pending"
NOTIFICATION_DELIVERED == "delivered"
NOTIFICATION_PERMANENT_FAILURE == "permanent-failure"
NOTIFICATION_TEMPORARY_FAILURE == "temporary-failure"
NOTIFICATION_TECHNICAL_FAILURE == "technical-failure"

PINPOINT_PROVIDER == "pinpoint"
SNS_PROVIDER == "sns"

Statuses ==
    {NOTIFICATION_CREATED, NOTIFICATION_SENDING, NOTIFICATION_SENT, NOTIFICATION_PENDING,
     NOTIFICATION_DELIVERED, NOTIFICATION_PERMANENT_FAILURE,
     NOTIFICATION_TEMPORARY_FAILURE, NOTIFICATION_TECHNICAL_FAILURE}

\* the statuses after which no provider callback should change a notification
TerminalStatuses ==
    {NOTIFICATION_DELIVERED, NOTIFICATION_PERMANENT_FAILURE, NOTIFICATION_TECHNICAL_FAILURE}

Providers == {PINPOINT_PROVIDER, SNS_PROVIDER}

\* A provider response is the sequence of the words of its text.
\* the reasons table of determine_pinpoint_status
reasons ==
    {<< <<"Blocked", "as", "spam", "by", "phone", "carrier">>, NOTIFICATION_TECHNICAL_FAILURE >>,
     << <<"Destination", "is", "on", "a", "blocked", "list">>, NOTIFICATION_TECHNICAL_FAILURE >>,
     << <<"Invalid", "phone", "number">>, NOTIFICATION_TECHNICAL_FAILURE >>,
     << <<"Message", "body", "is", "invalid">>, NOTIFICATION_TECHNICAL_FAILURE >>,
     << <<"Phone", "carrier", "has", "blocked", "this", "message">>, NOTIFICATION_TECHNICAL_FAILURE >>,
     << <<"Phone", "carrier", "is", "currently", "unreachable/unavailable">>, NOTIFICATION_TEMPORARY_FAILURE >>,
     << <<"Phone", "has", "blocked", "SMS">>, NOTIFICATION_TECHNICAL_FAILURE >>,
     << <<"Phone", "is", "on", "a", "blocked", "list">>, NOTIFICATION_TECHNICAL_FAILURE >>,
     << <<"Phone", "is", "currently", "unreachable/unavailable">>, NOTIFICATION_PERMANENT_FAILURE >>,
     << <<"Phone", "number", "is", "opted", "out">>, NOTIFICATION_PERMANENT_FAILURE >>,
     << <<"This", "delivery", "would", "exceed", "max", "price">>, NOTIFICATION_TECHNICAL_FAILURE >>,
     << <<"Unknown", "error", "attempting", "to", "reach", "phone">>, NOTIFICATION_TECHNICAL_FAILURE >>}

\* reasons.get(provider_response)
reasons_get(provider_response) ==
    IF \E e \in reasons : e[1] = provider_response
    THEN (CHOOSE e \in reasons : e[1] = provider_response)[2]
    ELSE None

\* sub in text
Contains(text, sub) ==
    \E k \in 0 .. Len(text) - Len(sub) : SubSeq(text, k + 1, k + Len(sub)) = sub

\* a provider response that is not set (JSON null)
NoResponse == <<>>

\* what '"is opted out" in provider_response' raises when the response is None
TypeError == "TypeError"

determine_pinpoint_status(sns_status, provider_response) ==
    IF sns_status = "DELIVERED"
    THEN NOTIFICATION_DELIVERED
    ELSE LET status == reasons_get(provider_response)
         IN  IF status = None
             THEN IF provider_response = NoResponse
                  THEN TypeError
                  ELSE IF Contains(provider_response, <<"is", "opted", "out">>)
                       THEN NOTIFICATION_PERMANENT_FAILURE
                       ELSE status
             ELSE status

\* the receipts Pinpoint sends for the notification (messageId is its reference)
ProviderReceipts ==
    {[messageStatus |-> "DELIVERED",
      messageStatusDescription |-> <<"Message", "has", "been", "accepted", "by", "phone">>],
     [messageStatus |-> "FAILED",
      messageStatusDescription |-> <<"Phone", "carrier", "is", "currently", "unreachable/unavailable">>],
     [messageStatus |-> "FAILED",
      messageStatusDescription |-> <<"Phone", "is", "currently", "unreachable/unavailable">>],
     [messageStatus |-> "FAILED",
      messageStatusDescription |-> <<"Recipient", "is", "opted", "out">>],
     [messageStatus |-> "FAILED",
      messageStatusDescription |-> <<"Carrier", "rejected", "the", "message">>]}

NoNotification == [status |-> None, sent_by |-> None, provider_response |-> NoResponse]
NoReceipt == [messageStatus |-> None, messageStatusDescription |-> NoResponse]
NoTask == [state |-> "none", lane |-> None, receipt |-> NoReceipt, retries |-> 0, result |-> None]

Deliveries == 1 .. MaxDeliveries

\* (mutant) a receipt without a mapped status counts as delivered
receipt_status_default_delivered(receipt) ==
    LET notification_status ==
            determine_pinpoint_status(receipt.messageStatus, receipt.messageStatusDescription)
    IN  IF notification_status = None THEN NOTIFICATION_DELIVERED ELSE notification_status

\* the status process_pinpoint_results gives a receipt: the mapped status, or
\* technical-failure when there is none
receipt_status(receipt) ==
    LET notification_status ==
            determine_pinpoint_status(receipt.messageStatus, receipt.messageStatusDescription)
    IN  IF notification_status = None THEN NOTIFICATION_TECHNICAL_FAILURE ELSE notification_status

\* notifications_dao._update_notification_status
update_notification_status(n, status, provider_response) ==
    [n EXCEPT !.status = status, !.provider_response = provider_response]

\* (mutant) one retry more than max_retries is allowed
retry_off_by_one(t) ==
    IF t.retries <= max_retries
    THEN [t EXCEPT !.lane = "RETRY", !.retries = @ + 1]
    ELSE [t EXCEPT !.state = "MaxRetriesExceededError"]

\* self.retry(queue=QueueNames.RETRY) in a task declared with max_retries=5:
\* the task is queued again on the retry lane with one retry more (and Retry
\* is raised), or MaxRetriesExceededError is raised when request.retries has
\* reached max_retries
retry(t) ==
    IF t.retries < max_retries
    THEN [t EXCEPT !.lane = "RETRY", !.retries = @ + 1]
    ELSE [t EXCEPT !.state = "MaxRetriesExceededError"]

\* encryption.encrypt and encryption.decrypt of the callback data
encrypt(data) == <<"encrypted", data>>
decrypt(encrypted) == encrypted[2]

\* create_delivery_status_callback_data: the fields of the data the model follows
create_delivery_status_callback_data(n) == encrypt([notification_status |-> n.status])

\* a send-delivery-status task as apply_async(..., queue=QueueNames.CALLBACKS) queues it
CallbackTask(notification_data) ==
    [state |-> "queued", lane |-> "CALLBACKS", encrypted_status_update |-> notification_data,
     retries |-> 0, posts |-> 0, status_code |-> 0, posted |-> None, result |-> None]

\* (mutant) the task is queued whether or not the service has a callback
check_and_queue_callback_task_always(n, queue) ==
    Append(queue, CallbackTask(create_delivery_status_callback_data(n)))

\* _check_and_queue_callback_task: the callbacks queue afterwards
check_and_queue_callback_task(n, queue) ==
    IF service_callback_api
    THEN Append(queue, CallbackTask(create_delivery_status_callback_data(n)))
    ELSE queue

\* (mutant) only a delivered notification counts as already updated
pinpoint_guards_delivered_only(n) ==
    IF n = NoNotification THEN "not-found"
    ELSE IF n.sent_by # PINPOINT_PROVIDER THEN "not-pinpoint"
    ELSE IF n.status = NOTIFICATION_DELIVERED THEN "duplicate"
    ELSE "update"

\* (mutant) the status guard is missing
pinpoint_guards_no_status(n) ==
    IF n = NoNotification THEN "not-found"
    ELSE IF n.sent_by # PINPOINT_PROVIDER THEN "not-pinpoint"
    ELSE "update"

\* (mutant) the sent_by guard is missing
pinpoint_guards_no_sent_by(n) ==
    IF n = NoNotification THEN "not-found"
    ELSE IF n.status # NOTIFICATION_SENT THEN "duplicate"
    ELSE "update"

\* (mutant) the status expected before a receipt is sending
pinpoint_guards_sending(n) ==
    IF n = NoNotification THEN "not-found"
    ELSE IF n.sent_by # PINPOINT_PROVIDER THEN "not-pinpoint"
    ELSE IF n.status # NOTIFICATION_SENDING THEN "duplicate"
    ELSE "update"

\* the lookup and the guards of process_pinpoint_results, in their order
pinpoint_guards(n) ==
    IF n = NoNotification THEN "not-found"
    ELSE IF n.sent_by # PINPOINT_PROVIDER THEN "not-pinpoint"
    ELSE IF n.status # NOTIFICATION_SENT THEN "duplicate"
    ELSE "update"

ReconcilerInit ==
    /\ notification \in
          {NoNotification} \cup
          [status : Statuses, sent_by : Providers, provider_response : {NoResponse}]
    /\ service_callback_api \in BOOLEAN
    /\ tasks = [d \in Deliveries |-> NoTask]
    /\ updates = 0
    /\ callbacks = <<>>

\* the reconciler at rest, for the specifications of the queue
ReconcilerIdle ==
    /\ notification = NoNotification
    /\ service_callback_api = FALSE
    /\ tasks = [d \in Deliveries |-> NoTask]
    /\ updates = 0
    /\ callbacks = <<>>

\* Pinpoint pushes a receipt (at least once, in any order): a
\* process-pinpoint-result task is queued for it
DeliverReceipt(receipt) ==
    /\ \E d \in Deliveries :
          /\ tasks[d].state = "none"
          /\ \A e \in Deliveries : e < d => tasks[e].state # "none"
          /\ tasks' = [tasks EXCEPT ![d] =
                         [state |-> "queued", lane |-> "incoming", receipt |-> receipt,
                          retries |-> 0, result |-> None]]
    /\ UNCHANGED <<notification, service_callback_api, updates, callbacks, qvars, xvars>>

\* the request that created the notification commits it ("Callback may have
\* arrived before notification was persisted to the DB")
PersistNotification ==
    /\ notification = NoNotification
    /\ notification' \in [status : Statuses, sent_by : Providers, provider_response : {NoResponse}]
    /\ UNCHANGED <<service_callback_api, tasks, updates, callbacks, qvars, xvars>>

\* one run of the task process_pinpoint_results
process_pinpoint_results(d) ==
    /\ tasks[d].state = "queued"
    /\ LET receipt == tasks[d].receipt
           provider_response == receipt.messageStatusDescription
           determined == determine_pinpoint_status(receipt.messageStatus, provider_response)
           notification_status == receipt_status(receipt)
           guard == pinpoint_guards(notification)
           retried == retry(tasks[d])
       IN  IF determined = TypeError
           THEN \* except Exception: self.retry(queue=QueueNames.RETRY)
                /\ tasks' = [tasks EXCEPT ![d] =
                               IF retried.state = "MaxRetriesExceededError"
                               THEN [@ EXCEPT !.state = "failed", !.result = "MaxRetriesExceededError"]
                               ELSE retried]
                /\ UNCHANGED <<notification, updates, callbacks>>
           ELSE IF guard = "not-found"
           THEN \* self.retry(queue=QueueNames.RETRY), except MaxRetriesExceededError: return
                /\ tasks' = [tasks EXCEPT ![d] =
                               IF retried.state = "MaxRetriesExceededError"
                               THEN [@ EXCEPT !.state = "done", !.result = "gave-up"]
                               ELSE retried]
                /\ UNCHANGED <<notification, updates, callbacks>>
           ELSE IF guard = "not-pinpoint" \/ guard = "duplicate"
           THEN /\ tasks' = [tasks EXCEPT ![d] = [@ EXCEPT !.state = "done", !.result = guard]]
                /\ UNCHANGED <<notification, updates, callbacks>>
           ELSE /\ notification' =
                      update_notification_status(notification, notification_status, provider_response)
                /\ updates' = updates + 1
                /\ callbacks' = check_and_queue_callback_task(notification', callbacks)
                /\ tasks' = [tasks EXCEPT ![d] = [@ EXCEPT !.state = "done", !.result = "applied"]]
    /\ UNCHANGED <<service_callback_api, qvars, xvars>>

----------------------------------------------------------------------------
(* The service callback dispatcher: service_callback_tasks.py *)

\* a RequestException that is not an HTTPError (a timeout, a refused connection)
ConnectionError == 0

\* what the POST to the URL of the service comes to: the status code of the
\* answer, or ConnectionError
Responses == {200, 404, 429, 500, ConnectionError}

\* response.raise_for_status() raises an HTTPError for a 4xx or 5xx answer
HTTPError(status_code) == 400 <= status_code /\ status_code < 600

\* the failures the except clause catches
RequestException(status_code) == status_code = ConnectionError \/ HTTPError(status_code)

\* (mutant) MaxRetriesExceededError is not caught
send_data_to_service_callback_api_uncaught(t, status_code) ==
    LET posted == [t EXCEPT !.posts = @ + 1, !.status_code = status_code,
                            !.posted = decrypt(t.encrypted_status_update).notification_status]
        retried == retry(posted)
    IN  IF ~RequestException(status_code)
        THEN [posted EXCEPT !.state = "done", !.result = "sent"]
        ELSE IF ~HTTPError(status_code) \/ status_code >= 500
             THEN IF retried.state = "MaxRetriesExceededError"
                  THEN [posted EXCEPT !.state = "failed", !.result = "MaxRetriesExceededError"]
                  ELSE retried
             ELSE [posted EXCEPT !.state = "done", !.result = "not-retried"]

\* send_delivery_status_to_service and _send_data_to_service_callback_api: the
\* task after one run in which the POST came to status_code
send_data_to_service_callback_api(t, status_code) ==
    LET posted == [t EXCEPT !.posts = @ + 1, !.status_code = status_code,
                            !.posted = decrypt(t.encrypted_status_update).notification_status]
        retried == retry(posted)
    IN  IF ~RequestException(status_code)
        THEN [posted EXCEPT !.state = "done", !.result = "sent"]
        ELSE IF ~HTTPError(status_code) \/ status_code >= 500
             THEN IF retried.state = "MaxRetriesExceededError"
                  THEN [posted EXCEPT !.state = "done", !.result = "dropped"]
                  ELSE retried
             ELSE [posted EXCEPT !.state = "done", !.result = "not-retried"]

\* one run of the task send_delivery_status_to_service
send_delivery_status_to_service(k, status_code) ==
    /\ k \in 1 .. Len(callbacks)
    /\ callbacks[k].state = "queued"
    /\ callbacks' = [callbacks EXCEPT ![k] = send_data_to_service_callback_api(@, status_code)]
    /\ UNCHANGED <<notification, service_callback_api, tasks, updates, qvars, xvars>>

----------------------------------------------------------------------------
(* The signer: encryption.py *)

\* app.config: SECRET_KEY and DANGEROUS_SALT, the default salt (self.salt)
SECRET_KEY == "secret-key"
DANGEROUS_SALT == "dangerous-salt"

\* the salts of the sign_* and verify_* methods
PurposeSalts ==
    {"notification", "personalisation", "complaint", "delivery-status", "bearer-token",
     "api-key", "inbound-sms"}

\* the values that are signed
Payloads == {"alpha", "beta", "gamma"}

\* itsdangerous.BadSignature
BadSignature == "BadSignature"

\* the signature itsdangerous computes: an HMAC of the payload under a key
\* derived from the secret key and the salt (no two inputs collide)
signature(salt, payload) == <<"hmac", SECRET_KEY, salt, payload>>

\* URLSafeSerializer.dumps: the encoded payload and its signature
dumps(obj, salt) == [payload |-> json_dumps(obj), sig |-> signature(salt, json_dumps(obj))]

\* URLSafeSerializer.loads: the payload if the signature is the one of this
\* salt, or BadSignature
loads(signed, salt) ==
    IF signed.sig = signature(salt, signed.payload)
    THEN json_loads(signed.payload)
    ELSE BadSignature

\* (mutant) the salt passed in is ignored
sign_default_salt(to_sign, salt) == dumps(to_sign, DANGEROUS_SALT)

\* CryptoSigner._sign
sign(to_sign, salt) == dumps(to_sign, IF salt = None THEN DANGEROUS_SALT ELSE salt)

\* (mutant) the default salt is not tried
verify_no_fallback(to_verify, salt) ==
    LET s == IF salt = None THEN DANGEROUS_SALT ELSE salt
    IN  [result |-> loads(to_verify, s), tried |-> <<s>>]

\* CryptoSigner._verify: what it returns or raises, and the salts it tried
verify(to_verify, salt) ==
    LET s == IF salt = None THEN DANGEROUS_SALT ELSE salt
        first == loads(to_verify, s)
    IN  IF first # BadSignature
        THEN [result |-> first, tried |-> <<s>>]
        ELSE [result |-> loads(to_verify, DANGEROUS_SALT), tried |-> <<s, DANGEROUS_SALT>>]

\* CryptoSigner.sign_dangerous
sign_dangerous(to_sign) == sign(to_sign, None)

\* CryptoSigner.sign_api_key
sign_api_key(api_key_secret) == sign(api_key_secret, "api-key")

\* (mutant) only the key signed with the api-key salt is looked for
get_api_key_by_secret_new_only(stored, secret) ==
    IF stored = sign_api_key(secret) THEN "found" ELSE "NoResultFound"

\* get_api_key_by_secret, for a table with one ApiKey whose _secret is stored
get_api_key_by_secret(stored, secret) ==
    IF stored = sign_api_key(secret)
    THEN "found"
    ELSE IF stored = sign_dangerous(secret) THEN "found" ELSE "NoResultFound"

NoSigning ==
    [state |-> "none", value |-> None, salt |-> None, token |-> dumps(None, None),
     purpose |-> None, secret |-> None, result |-> None, tried |-> <<>>]

\* notifications whose lookup-recipient-communication-permissions task runs
\* in one behaviour
MaxLookups == 2

Lookups == 1 .. MaxLookups

NoLookupTask ==
    [state |-> "none", lane |-> None, retries |-> 0, feature_flag |-> FALSE,
     communication_item_id |-> FALSE, chain |-> FALSE, raised |-> None, next_ran |-> FALSE]

\* no task is queued; the notifications are as they were created
NoLookup ==
    [task |-> [n \in Lookups |-> NoLookupTask],
     row  |-> [n \in Lookups |-> [status |-> NOTIFICATION_CREATED, status_reason |-> None]]]

\* the requests posted are 1 .. MaxPosts; request k persists notification k
MaxPosts == 2
PostIds == 1 .. MaxPosts

\* no request was posted yet: no Notification row, no NotificationHistory
\* row, no scheduled notification, no task queued
NoPost ==
    [served |-> 0,
     rows |-> [id \in PostIds |-> "absent"],
     history |-> {}, scheduled |-> {}, queued |-> {},
     last |-> [id |-> 0, raised |-> "none", status_code |-> 0]]

\* the notifications whose contact information is looked up
MaxContacts == 2
ContactIds == 1 .. MaxContacts

\* the number of retries the lookup-contact-info task is given
MaxContactRetries == 2

NoContactTask == [state |-> "none", notification_type |-> None, retries |-> 0, raised |-> None]

\* no lookup-contact-info task is queued; the notifications are as created
\* and have no recipient yet
NoContact ==
    [task |-> [n \in ContactIds |-> NoContactTask],
     row |-> [n \in ContactIds |-> [status |-> NOTIFICATION_CREATED, status_reason |-> None, to |-> None]],
     callback_calls |-> [n \in ContactIds |-> 0],
     max_retries_handled |-> [n \in ContactIds |-> 0]]

\* the users that create services, and the calls of send_create_service made
MaxZendeskUsers == 2
ZendeskUsers == 1 .. MaxZendeskUsers
MaxZendeskCalls == 3

\* the id of a contact or deal that an upsert did not return (None)
NoId == 0

NoZendeskCall ==
    [user |-> 0, existed |-> FALSE, contact_id |-> NoId, is_created |-> FALSE,
     deal_attempted |-> FALSE, deal_id |-> NoId, ret |-> None]

\* Zendesk Sell holds no contact and no deal; send_create_service was not called
NoZendesk == [contacts |-> {}, deals |-> {}, calls |-> 0, last |-> NoZendeskCall]

\* the configured MAX_VERIFY_CODE_COUNT, the number of verify codes ever
\* created for the user and the last tick of the clock (a tick is ten seconds)
MAX_VERIFY_CODE_COUNT == 2
MaxCodes == 3
MaxTime == 3

\* the requests to send_user_2fa_code that may be in progress at a time
Requesters == {"a", "b"}

\* one user without verify codes; no request is in progress
NoUsers ==
    [codes |-> <<>>, failed_login_count |-> 0, now |-> 0,
     pc |-> [p \in Requesters |-> "idle"], queued |-> 0,
     last |-> [code |-> 0, status_code |-> 0, message |-> None]]

\* the number of get_bind calls whose result the model remembers
MaxBindCalls == 4

\* a new ExplicitRoutingSession: _name = None, no flush, no bind returned yet
NoSession == [_name |-> None, _flushing |-> FALSE, returned |-> <<>>]

\* the number of records in the bios of an event
MaxRecords == 2

\* the lambda was not invoked yet; the module variable db_connection is None
NoOptIn ==
    [db_connection |-> None,
     last |-> [invoked |-> FALSE, event |-> [ok |-> TRUE, bios |-> <<>>],
               statusCode |-> 0, bios |-> <<>>, queried |-> {}, put |-> FALSE]]

\* the other tasks at rest
OthersIdle ==
    /\ lookup = NoLookup /\ signing = NoSigning /\ post = NoPost
    /\ contact = NoContact /\ zendesk = NoZendesk /\ users = NoUsers /\ session = NoSession /\ optin = NoOptIn

\* sign_<salt>(value), or sign_dangerous(value) when salt is None
Sign(value, salt) ==
    /\ signing.state = "none"
    /\ signing' = [NoSigning EXCEPT !.state = "signed", !.value = value, !.salt = salt,
                                    !.token = sign(value, salt)]
    /\ UNCHANGED <<lookup, yvars, qvars, rvars>>

\* verify_<purpose>(token)
Verify(purpose) ==
    /\ signing.state = "signed"
    /\ LET v == verify(signing.token, purpose)
       IN  signing' = [signing EXCEPT !.state = "verified", !.purpose = purpose,
                                      !.result = v.result, !.tried = v.tried]
    /\ UNCHANGED <<lookup, yvars, qvars, rvars>>

\* get_api_key_by_secret(secret), the token being the _secret of the ApiKey
LookupApiKey(secret) ==
    /\ signing.state = "signed"
    /\ signing.salt \in {"api-key", None}
    /\ signing' = [signing EXCEPT !.state = "looked-up", !.secret = secret,
                                  !.result = get_api_key_by_secret(signing.token, secret)]
    /\ UNCHANGED <<lookup, yvars, qvars, rvars>>

SignerInit == QueueInit /\ published = 0 /\ ReconcilerIdle /\ OthersIdle

SignerNext ==
    \/ \E value \in Payloads, salt \in PurposeSalts \cup {None} : Sign(value, salt)
    \/ \E purpose \in PurposeSalts : Verify(purpose)
    \/ \E secret \in Payloads : LookupApiKey(secret)

SignerSpec == SignerInit /\ [][SignerNext]_vars


ReceiptInit == ReconcilerInit /\ QueueInit /\ published = 0 /\ OthersIdle

\* receipts arrive for a notification that is in any status, or does not
\* exist; the tasks and the callbacks they queue run in any order
ReceiptNext ==
    \/ \E receipt \in ProviderReceipts : DeliverReceipt(receipt)
    \/ \E d \in Deliveries : process_pinpoint_results(d)
    \/ \E k \in 1 .. Len(callbacks), status_code \in Responses :
          send_delivery_status_to_service(k, status_code)

ReceiptSpec == ReceiptInit /\ [][ReceiptNext]_vars

\* one receipt races with the commit of the notification it is for
RaceInit == ReceiptInit /\ notification = NoNotification

RaceNext ==
    \/ tasks[1].state = "none" /\ \E receipt \in ProviderReceipts : DeliverReceipt(receipt)
    \/ PersistNotification
    \/ \E d \in Deliveries : process_pinpoint_results(d)
    \/ \E k \in 1 .. Len(callbacks), status_code \in Responses :
          send_delivery_status_to_service(k, status_code)

RaceSpec == RaceInit /\ [][RaceNext]_vars

----------------------------------------------------------------------------
(* The permission lookup: lookup_recipient_communication_permissions_task.py *)

NOTIFICATION_PREFERENCES_DECLINED == "preferences-declined"

\* VAProfileRetryableException.failure_reason
RETRYABLE_FAILURE_REASON == "Retryable VAProfile error occurred"

\* what va_profile_client.get_is_communication_allowed comes to
VAProfileOutcomes ==
    {"allowed", "declined", "VAProfileRetryableException", "CommunicationItemNotFoundException"}

\* update_notification_status_by_id: the rows afterwards
update_notification_status_by_id(rows, notification_id, status, status_reason) ==
    [rows EXCEPT ![notification_id] = [status |-> status, status_reason |-> status_reason]]

\* (mutant) when the retries are exhausted the recipient counts as permitted
recipient_has_given_permission_swallow(t, outcome) ==
    IF ~t.feature_flag THEN [ret |-> "True", task |-> t]
    ELSE IF ~t.communication_item_id THEN [ret |-> "True", task |-> t]
    ELSE IF outcome = "allowed" THEN [ret |-> "True", task |-> t]
    ELSE IF outcome = "declined" THEN [ret |-> "False", task |-> t]
    ELSE IF outcome = "VAProfileRetryableException"
         THEN LET retried == retry(t)
              IN  IF retried.state = "MaxRetriesExceededError"
                  THEN [ret |-> "True", task |-> t]
                  ELSE [ret |-> "Retry", task |-> retried]
    ELSE [ret |-> "True", task |-> t]

\* (mutant) a communication item that is not found counts as declined
recipient_has_given_permission_not_found(t, outcome) ==
    IF ~t.feature_flag THEN [ret |-> "True", task |-> t]
    ELSE IF ~t.communication_item_id THEN [ret |-> "True", task |-> t]
    ELSE IF outcome = "allowed" THEN [ret |-> "True", task |-> t]
    ELSE IF outcome = "declined" THEN [ret |-> "False", task |-> t]
    ELSE IF outcome = "VAProfileRetryableException"
         THEN LET retried == retry(t)
              IN  IF retried.state = "MaxRetriesExceededError"
                  THEN [ret |-> "NotificationTechnicalFailureException", task |-> t]
                  ELSE [ret |-> "Retry", task |-> retried]
    ELSE [ret |-> "False", task |-> t]

\* recipient_has_given_permission: what it returns or raises, and the task
\* as task.retry left it
recipient_has_given_permission(t, outcome) ==
    IF ~t.feature_flag THEN [ret |-> "True", task |-> t]
    ELSE IF ~t.communication_item_id THEN [ret |-> "True", task |-> t]
    ELSE IF outcome = "allowed" THEN [ret |-> "True", task |-> t]
    ELSE IF outcome = "declined" THEN [ret |-> "False", task |-> t]
    ELSE IF outcome = "VAProfileRetryableException"
         THEN LET retried == retry(t)
              IN  IF retried.state = "MaxRetriesExceededError"
                  THEN [ret |-> "NotificationTechnicalFailureException", task |-> t]
                  ELSE [ret |-> "Retry", task |-> retried]
    ELSE [ret |-> "True", task |-> t]

\* the chain of a notification reaches its permission lookup
QueueLookup(n, feature_flag, communication_item_id) ==
    /\ lookup.task[n].state = "none"
    /\ \A m \in Lookups : m < n => lookup.task[m].state # "none"
    /\ lookup' = [lookup EXCEPT !.task[n] =
                      [NoLookupTask EXCEPT !.state = "queued", !.lane = "incoming",
                                           !.feature_flag = feature_flag,
                                           !.communication_item_id = communication_item_id,
                                           !.chain = TRUE]]
    /\ UNCHANGED <<signing, yvars, qvars, rvars>>

\* one run of the task lookup_recipient_communication_permissions for
\* notification n, in which VA Profile comes to outcome
lookup_recipient_communication_permissions(n, outcome) ==
    /\ lookup.task[n].state = "queued"
    /\ LET t == lookup.task[n]
           r == recipient_has_given_permission(t, outcome)
       IN  lookup' =
              IF r.ret = "Retry"
              THEN [lookup EXCEPT !.task[n] = r.task]
              ELSE IF r.ret = "NotificationTechnicalFailureException"
              THEN [lookup EXCEPT
                      !.row = update_notification_status_by_id(
                                 @, n, NOTIFICATION_TECHNICAL_FAILURE, RETRYABLE_FAILURE_REASON),
                      !.task[n] = [t EXCEPT !.state = "failed", !.raised = r.ret]]
              ELSE IF r.ret = "False"
              THEN [lookup EXCEPT
                      !.row = update_notification_status_by_id(
                                 @, n, NOTIFICATION_PREFERENCES_DECLINED, None),
                      !.task[n] = [t EXCEPT !.state = "done", !.chain = FALSE]]
              ELSE [lookup EXCEPT !.task[n] = [t EXCEPT !.state = "done"]]
    /\ UNCHANGED <<signing, yvars, qvars, rvars>>

\* the worker goes on with the chain of a task that succeeded: the next task
\* of the chain of notification n runs, unless the task set its chain to None
RunNextInChain(n) ==
    /\ lookup.task[n].state = "done"
    /\ lookup.task[n].chain
    /\ ~lookup.task[n].next_ran
    /\ lookup' = [lookup EXCEPT !.task[n].next_ran = TRUE]
    /\ UNCHANGED <<signing, yvars, qvars, rvars>>

PermissionInit == QueueInit /\ published = 0 /\ ReconcilerIdle /\ OthersIdle

\* every component at rest: the initial state of the components below
AtRest == QueueInit /\ published = 0 /\ ReconcilerIdle /\ OthersIdle

PermissionNext ==
    \/ \E n \in Lookups, feature_flag \in BOOLEAN, communication_item_id \in BOOLEAN :
          QueueLookup(n, feature_flag, communication_item_id)
    \/ \E n \in Lookups, outcome \in VAProfileOutcomes :
          lookup_recipient_communication_permissions(n, outcome)
    \/ \E n \in Lookups : RunNextInChain(n)

PermissionSpec == PermissionInit /\ [][PermissionNext]_vars

----------------------------------------------------------------------------
(* The specifications of the queue *)

Init == QueueInit /\ ReconcilerIdle /\ OthersIdle

\* a behaviour makes at most MaxOps calls; a poll that has minted its receipt
\* always goes on to run its script
Next ==
    \/ ops < MaxOps /\ Publish
    \/ ops < MaxOps /\ \E count \in PollCounts : PollBegin(count)
    \/ \E call \in pending : PollScript(call)
    \/ ops < MaxOps /\ \E receipt \in AllReceipts : Acknowledge(receipt)

Spec == Init /\ [][Next]_vars

\* The queue under fair scheduling, from an empty inbox: producers and
\* pollers keep running and a script that was called runs, but a consumer may
\* crash between poll and acknowledge, so no acknowledge is certain to happen
PublishStep == ops < MaxOps /\ Publish
PollBeginStep == ops < MaxOps /\ \E count \in PollCounts : PollBegin(count)
PollScriptStep == \E call \in pending : PollScript(call)

LiveInit == QueueInit /\ published = 0 /\ ReconcilerIdle /\ OthersIdle

\* the queue from an empty inbox
EmptySpec == LiveInit /\ [][Next]_vars

LiveSpec ==
    /\ LiveInit /\ [][Next]_vars
    /\ WF_vars(PublishStep) /\ WF_vars(PollBeginStep) /\ WF_vars(PollScriptStep)

----------------------------------------------------------------------------
(* The scenario of 150 published items and two polls of 100 *)

Scenario == [items |-> 150, count |-> 100, polls |-> 2]

ScenarioInit == QueueInit /\ published = 0 /\ ReconcilerIdle /\ OthersIdle

ScenarioNext ==
    \/ published < Scenario.items /\ Publish
    \/ /\ published = Scenario.items
       /\ pending = {}
       /\ nextReceipt <= Scenario.polls
       /\ PollBegin(Scenario.count)
    \/ \E call \in pending : PollScript(call)
    \/ /\ Polled(Scenario.polls)
       /\ ackCalls[Scenario.polls] = 0
       /\ Acknowledge(Scenario.polls)

ScenarioSpec == ScenarioInit /\ [][ScenarioNext]_vars

----------------------------------------------------------------------------
(* What the lists hold *)

\* the messages of a Redis list, decoded
Decoded(list) == [k \in 1 .. Len(list) |-> json_loads(list[k])]

InboxSet == SeqToSet(Decoded(inbox))
FlightSet(r) == SeqToSet(Decoded(inflight(r)))
InFlightSet == UNION {FlightSet(r) : r \in AllReceipts}
Returned(r) == SeqToSet(pollLog[r].items)

RECURSIVE SumLen(_)
SumLen(S) == IF S = {} THEN 0
             ELSE LET k == CHOOSE k \in S : TRUE IN Len(redis[k]) + SumLen(S \ {k})

IsPrefix(a, b) == Len(a) <= Len(b) /\ a = SubSeq(b, 1, Len(a))

\* the items a poll returned are held under a receipt nobody acknowledged
\* and are not all back in the inbox
Unacked(r) ==
    /\ pollLog[r].items # <<>>
    /\ r \notin Acked
    /\ ~(Returned(r) \subseteq InboxSet)

----------------------------------------------------------------------------
(* The claims *)

\* C1: under any interleaving of poll calls no message is handed out under
\* two receipts: the items two polls return are disjoint, and every message
\* is at any time at most once in the inbox and the in-flight lists together.
C1_NoDoubleHandout ==
    /\ \A r1, r2 \in Receipts : r1 # r2 => Returned(r1) \cap Returned(r2) = {}
    /\ SumLen(Keys) = Cardinality(InboxSet \cup InFlightSet)

\* two polls were in progress at once, the script of the second ran first, and
\* both returned items
C1_Witness ==
    /\ Polled(1) /\ Polled(2)
    /\ pollLog[1].items # <<>> /\ pollLog[2].items # <<>>
    /\ pollLog[2].items[1] < pollLog[1].items[1]

\* C2: poll(count) returns and removes min(count, inbox length) items.
C2_PollMovesMinCountLen ==
    \A r \in Receipts : Polled(r) =>
        /\ Len(pollLog[r].items) = Min(pollLog[r].count, pollLog[r].before)
        /\ pollLog[r].before - pollLog[r].after = Min(pollLog[r].count, pollLog[r].before)

\* C3: the inbox is in publish order and the items one poll returns are a
\* prefix of the inbox as it was when the poll ran.
C3_PollReturnsPrefix ==
    /\ [](\A k \in 1 .. Len(inbox) - 1 : json_loads(inbox[k]) < json_loads(inbox[k + 1]))
    /\ [][\A call \in pending : PollScript(call) =>
             IsPrefix(pollLog'[call.receipt].items, Decoded(inbox))]_vars

\* A, B, C published to an empty inbox, then poll(count=3) returned [A, B, C]
C3_Witness ==
    \E r \in Receipts :
        /\ pollLog[r].count = 3 /\ pollLog[r].before = 3
        /\ pollLog[r].items = <<1, 2, 3>>
        /\ Decoded(inflight(r)) = <<3, 2, 1>>

\* C4: no published message is dropped: the inbox is the tail of the publish
\* sequence (each publish appended one entry at the tail), and every message
\* published so far is in the inbox, or in exactly one in-flight list, or was
\* polled under a receipt that was acknowledged.
C4_NothingDropped ==
    /\ inbox = Range(published - Len(inbox) + 1, published)
    /\ SumLen(Keys) = Cardinality(InboxSet \cup InFlightSet)
    /\ 1 .. published =
          InboxSet \cup InFlightSet
             \cup UNION {Returned(r) : r \in {q \in Receipts : q \in Acked}}

\* messages were published, some are in the inbox, some in flight and some
\* were acknowledged away
C4_Witness ==
    /\ published > 101
    /\ inbox # <<>>
    /\ \E r \in Receipts : inflight(r) # <<>>
    /\ \E r \in Receipts : r \in Acked /\ pollLog[r].items # <<>>

\* C5: the messages polled under an acknowledged receipt are gone for good:
\* they are not in the inbox, not in any in-flight list and no other poll
\* returned them.
C5_AckedAreGone ==
    \A r \in Receipts : r \in Acked =>
        /\ Returned(r) \cap (InboxSet \cup InFlightSet) = {}
        /\ \A q \in Receipts \ {r} : Returned(q) \cap Returned(r) = {}

\* a receipt with items was acknowledged and a later poll returned items
C5_Witness ==
    \E r, q \in Receipts :
        /\ r \in Acked /\ pollLog[r].items # <<>>
        /\ r \in pollLog[q].acked /\ pollLog[q].items # <<>>

\* C6: acknowledge touches nothing but the in-flight list of its receipt, and
\* with a receipt that was acknowledged before or was never issued it changes
\* nothing at all.
C6_AckIdempotentLocal ==
    [][\A r \in AllReceipts : Acknowledge(r) =>
          /\ inbox' = inbox
          /\ \A q \in AllReceipts \ {r} : inflight(q)' = inflight(q)
          /\ (r \in Acked \/ r = UnknownReceipt) => redis' = redis]_vars

\* a receipt was acknowledged twice and a never issued receipt once, while
\* another receipt still has its items in flight
C6_Witness ==
    /\ ackCalls[UnknownReceipt] >= 1
    /\ \E r, q \in Receipts :
          /\ r # q
          /\ ackCalls[r] >= 2 /\ pollLog[r].items # <<>>
          /\ ackCalls[q] = 0 /\ inflight(q) # <<>>

\* C7: the messages of a receipt that is never acknowledged eventually are
\* in the inbox again.
C7_UnackedReturnToInbox ==
    \A r \in Receipts : Unacked(r) ~> ~Unacked(r)

\* C8: 150 items published to an empty inbox: the first poll(100) returns
\* exactly the first 100, the second poll(100) returns the other 50 and
\* leaves the inbox empty; acknowledging the second receipt empties its
\* in-flight list and leaves the 100 items of the first in flight.
C8_Scenario150 ==
    LET n == Scenario.items
        c == Scenario.count
    IN  /\ Polled(1) => /\ pollLog[1].items = [k \in 1 .. c |-> k]
                        /\ FlightSet(1) = 1 .. c
                        /\ Len(inflight(1)) = c
        /\ Polled(2) => /\ pollLog[2].items = [k \in 1 .. n - c |-> c + k]
                        /\ pollLog[2].after = 0
                        /\ inbox = <<>>
        /\ (Polled(2) /\ 2 \notin Acked) => FlightSet(2) = (c + 1) .. n
        /\ 2 \in Acked => inflight(2) = <<>>

\* both polls returned and the second receipt was acknowledged
C8_Witness ==
    /\ published = 150
    /\ Len(pollLog[1].items) = 100 /\ Len(pollLog[2].items) = 50
    /\ 2 \in Acked /\ Len(inflight(1)) = 100

\* C9: a notification in a terminal status is never changed by
\* process_pinpoint_results, whatever receipts arrive for its reference: its
\* status and its provider response stay as they were.
C9_TerminalNeverChanged ==
    [][notification.status \in TerminalStatuses => notification' = notification]_vars

\* a receipt moved the notification to a terminal status, and a later
\* receipt that maps to another status was discarded
C9_Witness ==
    /\ notification.status \in TerminalStatuses
    /\ \E d, e \in Deliveries :
          /\ tasks[d].result = "applied"
          /\ tasks[e].result = "duplicate"
          /\ receipt_status(tasks[e].receipt) # notification.status

\* C10: for a notification in status sent (sent by Pinpoint), a run of
\* process_pinpoint_results with receipt X moves it to the status X maps to,
\* as one update with at most one service callback; a run with a receipt X
\* that was applied before changes nothing and queues no callback; no receipt
\* is applied twice.
C10_ReconcileOnce ==
    /\ [](\A d, e \in Deliveries :
             (d # e /\ tasks[d].result = "applied" /\ tasks[e].result = "applied")
                => tasks[d].receipt # tasks[e].receipt)
    /\ [][\A d \in Deliveries : process_pinpoint_results(d) =>
             /\ (notification.status = NOTIFICATION_SENT /\ notification.sent_by = PINPOINT_PROVIDER)
                   => /\ notification'.status = receipt_status(tasks[d].receipt)
                      /\ updates' = updates + 1
                      /\ Len(callbacks') = Len(callbacks) + (IF service_callback_api THEN 1 ELSE 0)
             /\ (\E e \in Deliveries \ {d} :
                    tasks[e].receipt = tasks[d].receipt /\ tasks[e].result = "applied")
                   => /\ notification' = notification
                      /\ callbacks' = callbacks
                      /\ updates' = updates]_vars

\* the same receipt was handled twice for a notification of a service with a
\* callback: the first run applied it, the second discarded it, one callback
C10_Witness ==
    /\ service_callback_api
    /\ Len(callbacks) = 1 /\ updates = 1
    /\ \E d, e \in Deliveries :
          /\ tasks[d].receipt = tasks[e].receipt
          /\ tasks[d].result = "applied"
          /\ tasks[e].result = "duplicate"
          /\ notification.status = receipt_status(tasks[d].receipt)

\* the status a receipt X maps to when it is applied
OptedOut == <<"is", "opted", "out">>
Unmapped(receipt) ==
    receipt.messageStatus # "DELIVERED" /\ reasons_get(receipt.messageStatusDescription) = None

\* C11: a run of process_pinpoint_results for a notification whose sent_by is
\* not the Pinpoint provider leaves the notification as it is, makes no update
\* and queues no service callback, whatever the status of the notification.
C11_NotPinpointNeverMutated ==
    [][\A d \in Deliveries :
          (/\ process_pinpoint_results(d)
           /\ notification # NoNotification
           /\ notification.sent_by # PINPOINT_PROVIDER)
             => /\ notification' = notification
                /\ updates' = updates
                /\ callbacks' = callbacks]_vars

\* a DELIVERED receipt was handled for a notification in status sent that
\* another provider sent, for a service with a callback: nothing happened
C11_Witness ==
    /\ notification.status = NOTIFICATION_SENT
    /\ notification.sent_by = SNS_PROVIDER
    /\ service_callback_api
    /\ callbacks = <<>> /\ updates = 0
    /\ \E d \in Deliveries :
          tasks[d].result = "not-pinpoint" /\ tasks[d].receipt.messageStatus = "DELIVERED"

\* C12 (as claimed): a receipt with messageStatus DELIVERED for a notification
\* in status sending with sent_by = pinpoint moves it to delivered and, when
\* the service has a callback, leads to exactly one POST.
C12_SendingBecomesDelivered ==
    /\ [][\A d \in Deliveries :
             (/\ process_pinpoint_results(d)
              /\ tasks[d].receipt.messageStatus = "DELIVERED"
              /\ notification.status = NOTIFICATION_SENDING
              /\ notification.sent_by = PINPOINT_PROVIDER)
                => /\ notification'.status = NOTIFICATION_DELIVERED
                   /\ service_callback_api => Len(callbacks') = Len(callbacks) + 1]_vars
    /\ [](\A k \in 1 .. Len(callbacks) : callbacks[k].state = "done" => callbacks[k].posts = 1)

\* C12 (amended): a receipt with messageStatus DELIVERED for a notification
\* in status sent with sent_by = pinpoint moves it to delivered and, when the
\* service has a callback, queues exactly one send-delivery-status task for
\* the status delivered; every run of that task makes one POST of that
\* status, and a task whose first POST is not retried has made exactly one.
\* A notification in status sending is left as it is.
C12_SentBecomesDelivered ==
    /\ [][\A d \in Deliveries :
             (/\ process_pinpoint_results(d)
              /\ tasks[d].receipt.messageStatus = "DELIVERED"
              /\ notification.sent_by = PINPOINT_PROVIDER)
                => /\ notification.status = NOTIFICATION_SENT
                      => /\ notification'.status = NOTIFICATION_DELIVERED
                         /\ service_callback_api
                               => callbacks' = Append(callbacks,
                                     CallbackTask(encrypt([notification_status |-> NOTIFICATION_DELIVERED])))
                         /\ ~service_callback_api => callbacks' = callbacks
                   /\ notification.status = NOTIFICATION_SENDING
                      => notification' = notification /\ callbacks' = callbacks]_vars
    /\ [][\A k \in 1 .. Len(callbacks), status_code \in Responses :
             send_delivery_status_to_service(k, status_code)
                => /\ callbacks'[k].posts = callbacks[k].posts + 1
                   /\ callbacks'[k].posted = decrypt(callbacks[k].encrypted_status_update).notification_status]_vars
    /\ [](\A k \in 1 .. Len(callbacks) :
             (callbacks[k].state = "done" /\ callbacks[k].retries = 0) => callbacks[k].posts = 1)

\* a sent notification became delivered by a DELIVERED receipt and the one
\* callback task posted delivered once and was answered 200
C12_Witness ==
    /\ notification.status = NOTIFICATION_DELIVERED
    /\ updates = 1
    /\ \E d \in Deliveries :
          tasks[d].result = "applied" /\ tasks[d].receipt.messageStatus = "DELIVERED"
    /\ Len(callbacks) = 1
    /\ callbacks[1].state = "done" /\ callbacks[1].result = "sent"
    /\ callbacks[1].posts = 1 /\ callbacks[1].status_code = 200
    /\ callbacks[1].posted = NOTIFICATION_DELIVERED

\* C13 (as claimed): an applied receipt without an entry in the mapping table
\* moves the notification to technical-failure, and only a receipt with
\* messageStatus DELIVERED moves it to delivered.
C13_UnmappedIsTechnicalFailure ==
    [][\A d \in Deliveries :
          (process_pinpoint_results(d) /\ updates' = updates + 1)
             => /\ Unmapped(tasks[d].receipt)
                      => notification'.status = NOTIFICATION_TECHNICAL_FAILURE
                /\ notification'.status = NOTIFICATION_DELIVERED
                      => tasks[d].receipt.messageStatus = "DELIVERED"]_vars

\* C13 (amended): an applied receipt without an entry in the mapping table
\* moves the notification to technical-failure, unless its description
\* contains "is opted out": then it moves it to permanent-failure. Only a
\* receipt with messageStatus DELIVERED moves a notification to delivered.
C13_UnmappedNeverDelivered ==
    [][\A d \in Deliveries :
          (process_pinpoint_results(d) /\ updates' = updates + 1)
             => LET receipt == tasks[d].receipt
                    opted_out == Contains(receipt.messageStatusDescription, OptedOut)
                IN  /\ (Unmapped(receipt) /\ ~opted_out)
                          => notification'.status = NOTIFICATION_TECHNICAL_FAILURE
                    /\ (Unmapped(receipt) /\ opted_out)
                          => notification'.status = NOTIFICATION_PERMANENT_FAILURE
                    /\ notification'.status = NOTIFICATION_DELIVERED
                          <=> receipt.messageStatus = "DELIVERED"]_vars

\* a receipt with a description the table does not have was applied as
\* technical-failure
C13_Witness ==
    /\ notification.status = NOTIFICATION_TECHNICAL_FAILURE
    /\ notification.provider_response = <<"Carrier", "rejected", "the", "message">>
    /\ \E d \in Deliveries :
          tasks[d].result = "applied" /\ Unmapped(tasks[d].receipt)

\* C14: while no notification exists for the reference of a receipt,
\* process_pinpoint_results changes nothing and queues no callback; it puts
\* itself on the retry lane at most max_retries times, and the run after the
\* last retry ends the task normally.
C14_NotFoundRetriesBounded ==
    /\ [](\A d \in Deliveries :
             /\ tasks[d].retries <= max_retries
             /\ tasks[d].state # "failed")
    /\ [][\A d \in Deliveries :
             (process_pinpoint_results(d) /\ notification = NoNotification)
                => /\ notification' = notification
                   /\ updates' = updates
                   /\ callbacks' = callbacks
                   /\ tasks[d].retries < max_retries
                         => tasks'[d] = [tasks[d] EXCEPT !.lane = "RETRY", !.retries = @ + 1]
                   /\ tasks[d].retries = max_retries
                         => tasks'[d] = [tasks[d] EXCEPT !.state = "done", !.result = "gave-up"]]_vars

\* the task ran six times without finding the notification and gave up; the
\* notification was committed only afterwards and nothing was updated
C14_Witness ==
    /\ tasks[1].state = "done" /\ tasks[1].result = "gave-up"
    /\ tasks[1].retries = max_retries /\ tasks[1].lane = "RETRY"
    /\ notification # NoNotification /\ notification.status = NOTIFICATION_SENT
    /\ updates = 0 /\ callbacks = <<>>

\* C15: a run of process_pinpoint_results queues one send-delivery-status
\* task when it changed the notification and the service has a callback, and
\* queues nothing otherwise; what was queued before stays as it was.
C15_CallbackIffAppliedAndRegistered ==
    [][\A d \in Deliveries : process_pinpoint_results(d) =>
          LET applied == notification' # notification
          IN  /\ applied <=> tasks'[d].result = "applied"
              /\ (applied /\ service_callback_api)
                    => /\ Len(callbacks') = Len(callbacks) + 1
                       /\ SubSeq(callbacks', 1, Len(callbacks)) = callbacks
                       /\ callbacks'[Len(callbacks')].state = "queued"
                       /\ callbacks'[Len(callbacks')].lane = "CALLBACKS"
              /\ ~(applied /\ service_callback_api) => callbacks' = callbacks]_vars

\* for a service without a callback a receipt was applied and another was
\* discarded: nothing was queued
C15_Witness ==
    /\ ~service_callback_api
    /\ updates = 1 /\ callbacks = <<>>
    /\ \E d, e \in Deliveries :
          /\ tasks[d].result = "applied"
          /\ tasks[e].result = "duplicate"
          /\ tasks[d].receipt # tasks[e].receipt

\* C16: a failed POST is retried on the retry lane when the answer is a 5xx
\* or a 429, and is not retried on any other 4xx.
C16_RetryOn5xxAnd429 ==
    [][\A k \in 1 .. Len(callbacks), status_code \in Responses :
          (send_delivery_status_to_service(k, status_code) /\ callbacks[k].retries < max_retries)
             => /\ (status_code >= 500 \/ status_code = 429)
                      => /\ callbacks'[k].state = "queued"
                         /\ callbacks'[k].lane = "RETRY"
                         /\ callbacks'[k].retries = callbacks[k].retries + 1
                /\ (HTTPError(status_code) /\ status_code < 500 /\ status_code # 429)
                      => /\ callbacks'[k].state = "done"
                         /\ callbacks'[k].retries = callbacks[k].retries]_vars

\* C17: a send-delivery-status task makes at most 1 + max_retries POSTs; the
\* run in which a retried failure meets the exhausted retry count drops the
\* callback and ends the task without an error, and no run of the task
\* changes the notification.
C17_CallbackDeliveryTerminates ==
    /\ [](\A k \in 1 .. Len(callbacks) :
             /\ callbacks[k].posts <= 1 + max_retries
             /\ callbacks[k].retries <= max_retries
             /\ callbacks[k].state \in {"queued", "done"})
    /\ [][\A k \in 1 .. Len(callbacks), status_code \in Responses :
             send_delivery_status_to_service(k, status_code)
                => /\ notification' = notification
                   /\ updates' = updates
                   /\ (/\ callbacks[k].retries = max_retries
                       /\ (status_code >= 500 \/ status_code = ConnectionError))
                         => /\ callbacks'[k].state = "done"
                            /\ callbacks'[k].result = "dropped"
                            /\ callbacks'[k].posts = 1 + max_retries]_vars

\* every POST of a callback was answered 500: after the sixth the callback
\* was dropped and the notification is as the receipt left it
C17_Witness ==
    /\ Len(callbacks) = 1
    /\ callbacks[1].state = "done" /\ callbacks[1].result = "dropped"
    /\ callbacks[1].posts = 1 + max_retries /\ callbacks[1].status_code = 500
    /\ notification.status = callbacks[1].posted

\* C18: a token signed under a purpose salt verifies under the same purpose
\* to the value that was signed, and under any other purpose verification
\* fails with BadSignature.
C18_RoundTripAndSeparation ==
    (signing.state = "verified" /\ signing.salt \in PurposeSalts)
       => /\ signing.purpose = signing.salt => signing.result = signing.value
          /\ signing.purpose # signing.salt => signing.result = BadSignature

\* a value signed as a notification was verified as a complaint: BadSignature
\* after both salts were tried
C18_Witness ==
    /\ signing.state = "verified"
    /\ signing.salt = "notification" /\ signing.purpose = "complaint"
    /\ signing.result = BadSignature
    /\ signing.tried = <<"complaint", DANGEROUS_SALT>>

\* C19: a token signed with the default salt (sign_dangerous) verifies under
\* every purpose to the value that was signed, the purpose salt being tried
\* first and the default salt second; get_api_key_by_secret finds a key whose
\* secret was signed under the api-key salt or under the default salt.
C19_LegacySaltAccepted ==
    /\ (signing.state = "verified" /\ signing.salt = None)
          => /\ signing.result = signing.value
             /\ signing.tried = <<signing.purpose, DANGEROUS_SALT>>
    /\ signing.state = "looked-up"
          => (signing.result = "found" <=> signing.secret = signing.value)

\* a value signed by sign_dangerous was verified by verify_api_key
C19_Witness ==
    /\ signing.state = "verified"
    /\ signing.salt = None /\ signing.purpose = "api-key"
    /\ signing.result = signing.value
    /\ signing.token.sig = signature(DANGEROUS_SALT, signing.token.payload)

\* C20: a run of lookup_recipient_communication_permissions that meets a
\* retryable VA Profile error puts the task on the retry lane and leaves the
\* notification as it is while retries remain; with max_retries retries used
\* it sets the notification to technical-failure with the failure reason of
\* the error as status_reason and raises
\* NotificationTechnicalFailureException. No task makes more than
\* max_retries retries, and no other notification is touched.
C20_RetriesExhaustedIsTechnicalFailure ==
    /\ [](\A n \in Lookups : lookup.task[n].retries <= max_retries)
    /\ [][\A n \in Lookups :
             LET t == lookup.task[n]
                 called == t.feature_flag /\ t.communication_item_id
             IN  (/\ lookup_recipient_communication_permissions(n, "VAProfileRetryableException")
                  /\ called)
                    => /\ \A m \in Lookups \ {n} : lookup'.row[m] = lookup.row[m]
                       /\ t.retries < max_retries
                             => /\ lookup'.row = lookup.row
                                /\ lookup'.task[n] =
                                      [t EXCEPT !.lane = "RETRY", !.retries = @ + 1]
                       /\ t.retries = max_retries
                             => /\ lookup'.row[n] =
                                      [status |-> NOTIFICATION_TECHNICAL_FAILURE,
                                       status_reason |-> RETRYABLE_FAILURE_REASON]
                                /\ lookup'.task[n].state = "failed"
                                /\ lookup'.task[n].raised = "NotificationTechnicalFailureException"]_vars

\* one task met the retryable error six times and failed its notification;
\* the task of another notification was retried and then found the recipient
\* permitted
C20_Witness ==
    \E n, m \in Lookups :
        /\ lookup.task[n].state = "failed" /\ lookup.task[n].retries = max_retries
        /\ lookup.row[n].status = NOTIFICATION_TECHNICAL_FAILURE
        /\ lookup.row[n].status_reason = RETRYABLE_FAILURE_REASON
        /\ lookup.task[m].state = "done" /\ lookup.task[m].retries > 0
        /\ lookup.row[m].status = NOTIFICATION_CREATED

\* C28: the script of a poll leaves in IN-FLIGHT:<receipt> exactly the items
\* the poll returns, each once, and these are the items it took from the head
\* of the inbox; no other list changes. On an empty inbox the poll returns
\* no items under a receipt no poll had before and changes no list.
C28_InflightHoldsReturned ==
    /\ [][\A call \in pending : PollScript(call) =>
             LET r == call.receipt
                 items == pollLog'[r].items
             IN  /\ Len(inflight(r)') = Len(items)
                 /\ SeqToSet(Decoded(inflight(r)')) = SeqToSet(items)
                 /\ Cardinality(SeqToSet(items)) = Len(items)
                 /\ Decoded(inbox) = items \o Decoded(inbox')
                 /\ \A q \in AllReceipts \ {r} : inflight(q)' = inflight(q)
                 /\ inflight(r) = <<>>
                 /\ ~Polled(r)
                 /\ inbox = <<>> => (items = <<>> /\ redis' = redis)]_vars
    /\ [](\A c1, c2 \in pending : c1.receipt = c2.receipt => c1 = c2)

\* one poll took 101 items in two chunks and holds them in flight; the next
\* poll found the inbox empty and returned nothing
C28_Witness ==
    \E r, q \in Receipts :
        /\ Len(pollLog[r].items) = 101 /\ FlightSet(r) = Returned(r)
        /\ Polled(q) /\ pollLog[q].before = 0
        /\ pollLog[q].items = <<>> /\ inflight(q) = <<>>

\* C29: a run of lookup_recipient_communication_permissions in which the
\* recipient has declined sets the notification to preferences-declined and
\* sets the chain to None, and the next task of that chain never runs; a run
\* in which permission is granted, the feature flag is off, the template has
\* no communication item or the item is not found leaves the notification as
\* it is and the chain in place.
C29_DeclinedCancelsChain ==
    /\ [](\A n \in Lookups :
             lookup.task[n].next_ran
                => /\ lookup.row[n].status = NOTIFICATION_CREATED
                   /\ lookup.task[n].state = "done" /\ lookup.task[n].chain)
    /\ [][\A n \in Lookups, outcome \in VAProfileOutcomes :
             lookup_recipient_communication_permissions(n, outcome)
                => LET t == lookup.task[n]
                       called == t.feature_flag /\ t.communication_item_id
                   IN  /\ (called /\ outcome = "declined")
                             => /\ lookup'.row[n].status = NOTIFICATION_PREFERENCES_DECLINED
                                /\ lookup'.task[n].state = "done"
                                /\ ~lookup'.task[n].chain
                       /\ (~called \/ outcome \in {"allowed", "CommunicationItemNotFoundException"})
                             => /\ lookup'.row = lookup.row
                                /\ lookup'.task[n].state = "done"
                                /\ lookup'.task[n].chain]_vars
    /\ [][\A n \in Lookups :
             lookup.row[n].status = NOTIFICATION_PREFERENCES_DECLINED
                => /\ lookup'.row[n] = lookup.row[n]
                   /\ ~lookup'.task[n].next_ran]_vars

\* the recipient of one notification had declined and its chain stopped; the
\* item of another was not found and its chain went on
C29_Witness ==
    \E n, m \in Lookups :
        /\ lookup.row[n].status = NOTIFICATION_PREFERENCES_DECLINED
        /\ lookup.task[n].state = "done" /\ ~lookup.task[n].chain /\ ~lookup.task[n].next_ran
        /\ lookup.task[m].state = "done" /\ lookup.task[m].next_ran
        /\ lookup.task[m].feature_flag /\ lookup.task[m].communication_item_id
        /\ lookup.row[m].status = NOTIFICATION_CREATED

----------------------------------------------------------------------------
(***************************************************************************)
(* POST /v2/notifications/<notification_type>                              *)
(* (app/v2/notifications/post_notifications.py).  A request is the record  *)
(* of what its checks find: the type in the URL, whether the body decodes  *)
(* and fits its schema, the permissions and key type of the service,       *)
(* whether the rate limit is exceeded, whether the template and the        *)
(* recipient are valid, whether the recipient is a simulated one and       *)
(* whether the broker refuses the task.  The requests carry no documents   *)
(* to upload; the service is live and not in research mode.                *)
(***************************************************************************)
EMAIL_TYPE == "email"
SMS_TYPE == "sms"
LETTER_TYPE == "letter"
KEY_TYPE_NORMAL == "normal"
KEY_TYPE_TEAM == "team"
KEY_TYPE_TEST == "test"
SCHEDULE_NOTIFICATIONS == "schedule_notifications"

\* the key type is read for letters only, the recipient for sms and emails only
Requests ==
    [notification_type : {EMAIL_TYPE, SMS_TYPE, "fax"},
     body : {"undecodable", "invalid", "valid"},
     permissions : SUBSET {"send", SCHEDULE_NOTIFICATIONS},
     key_type : {KEY_TYPE_NORMAL},
     scheduled_for : BOOLEAN,
     rate_limit_exceeded : BOOLEAN,
     valid_template : BOOLEAN,
     valid_recipient : BOOLEAN,
     simulated : BOOLEAN,
     sqs_fails : BOOLEAN]
    \cup
    [notification_type : {LETTER_TYPE},
     body : {"undecodable", "invalid", "valid"},
     permissions : SUBSET {"send", SCHEDULE_NOTIFICATIONS},
     key_type : {KEY_TYPE_NORMAL, KEY_TYPE_TEAM, KEY_TYPE_TEST},
     scheduled_for : {FALSE},
     rate_limit_exceeded : BOOLEAN,
     valid_template : BOOLEAN,
     valid_recipient : {TRUE},
     simulated : {FALSE},
     sqs_fails : BOOLEAN]

\* the status code the error handlers of the blueprint answer an exception with
status_code_of(raised) ==
    CASE raised = "none" -> 201
      [] raised = "BadRequestError" -> 400
      [] raised = "ValidationError" -> 400
      [] raised = "Forbidden" -> 403
      [] raised = "NotFound" -> 404
      [] raised = "RateLimitError" -> 429
      [] OTHER -> 500

\* persist_notification: the Notification and NotificationHistory rows of a
\* notification that is not simulated are written
persist_notification(db, id, status, simulated) ==
    IF simulated THEN db
    ELSE [db EXCEPT !.rows[id] = status, !.history = @ \cup {id}]

\* send_notification_to_queue: the deliver task is put on the queue; if the
\* broker refuses it the notification and its history are deleted and the
\* error is raised again
send_notification_to_queue(db, id, notification_type, sqs_fails) ==
    IF sqs_fails
    THEN [db |-> [db EXCEPT !.rows[id] = "absent", !.history = @ \ {id}],
          raised |-> "Exception"]
    ELSE [db |-> [db EXCEPT !.queued = @ \cup {[id |-> id, task |-> "deliver_" \o notification_type]}],
          raised |-> "none"]

\* (mutant) the error of send_notification_to_queue is caught and the
\* notification returned
process_sms_or_email_notification_swallow(db, id, req) ==
    IF ~req.valid_recipient THEN [db |-> db, raised |-> "BadRequestError"]
    ELSE LET persisted == persist_notification(db, id, NOTIFICATION_CREATED, req.simulated)
         IN  IF req.scheduled_for
             THEN [db |-> [persisted EXCEPT !.scheduled = @ \cup {id}], raised |-> "none"]
             ELSE IF ~req.simulated
             THEN [db |-> send_notification_to_queue(persisted, id, req.notification_type,
                                                     req.sqs_fails).db,
                   raised |-> "none"]
             ELSE [db |-> persisted, raised |-> "none"]

\* process_sms_or_email_notification: the store afterwards and what it raised
process_sms_or_email_notification(db, id, req) ==
    IF ~req.valid_recipient THEN [db |-> db, raised |-> "BadRequestError"]
    ELSE LET persisted == persist_notification(db, id, NOTIFICATION_CREATED, req.simulated)
         IN  IF req.scheduled_for
             THEN [db |-> [persisted EXCEPT !.scheduled = @ \cup {id}], raised |-> "none"]
             ELSE IF ~req.simulated
             THEN send_notification_to_queue(persisted, id, req.notification_type, req.sqs_fails)
             ELSE [db |-> persisted, raised |-> "none"]

\* process_letter_notification for a letter that is not precompiled
process_letter_notification(db, id, req) ==
    IF req.key_type = KEY_TYPE_TEAM THEN [db |-> db, raised |-> "Forbidden"]
    ELSE LET test_key == req.key_type = KEY_TYPE_TEST
             status == IF test_key THEN NOTIFICATION_SENDING ELSE NOTIFICATION_CREATED
             created == persist_notification(db, id, status, FALSE)
             queued == [created EXCEPT !.queued = @ \cup {[id |-> id, task |-> "create_letters_pdf"]}]
         IN  IF req.sqs_fails THEN [db |-> created, raised |-> "Exception"]
             ELSE IF test_key
             THEN [db |-> [queued EXCEPT !.rows[id] = NOTIFICATION_DELIVERED], raised |-> "none"]
             ELSE [db |-> queued, raised |-> "none"]

\* (mutant) the rate limit is checked after the notification was processed
post_notification_late_limit(db, id, req) ==
    IF req.body = "undecodable" THEN [db |-> db, raised |-> "BadRequestError"]
    ELSE IF req.notification_type \notin {EMAIL_TYPE, SMS_TYPE, LETTER_TYPE}
    THEN [db |-> db, raised |-> "NotFound"]
    ELSE IF req.body = "invalid" THEN [db |-> db, raised |-> "ValidationError"]
    ELSE IF "send" \notin req.permissions THEN [db |-> db, raised |-> "BadRequestError"]
    ELSE IF req.scheduled_for /\ SCHEDULE_NOTIFICATIONS \notin req.permissions
    THEN [db |-> db, raised |-> "BadRequestError"]
    ELSE IF ~req.valid_template THEN [db |-> db, raised |-> "BadRequestError"]
    ELSE LET processed == IF req.notification_type = LETTER_TYPE
                          THEN process_letter_notification(db, id, req)
                          ELSE process_sms_or_email_notification(db, id, req)
         IN  IF processed.raised = "none" /\ req.rate_limit_exceeded
             THEN [db |-> processed.db, raised |-> "RateLimitError"]
             ELSE processed

\* post_notification: the store afterwards and what the handler raised
post_notification(db, id, req) ==
    IF req.body = "undecodable" THEN [db |-> db, raised |-> "BadRequestError"]
    ELSE IF req.notification_type \notin {EMAIL_TYPE, SMS_TYPE, LETTER_TYPE}
    THEN [db |-> db, raised |-> "NotFound"]
    ELSE IF req.body = "invalid" THEN [db |-> db, raised |-> "ValidationError"]
    ELSE IF "send" \notin req.permissions THEN [db |-> db, raised |-> "BadRequestError"]
    ELSE IF req.scheduled_for /\ SCHEDULE_NOTIFICATIONS \notin req.permissions
    THEN [db |-> db, raised |-> "BadRequestError"]
    ELSE IF req.rate_limit_exceeded THEN [db |-> db, raised |-> "RateLimitError"]
    ELSE IF ~req.valid_template THEN [db |-> db, raised |-> "BadRequestError"]
    ELSE IF req.notification_type = LETTER_TYPE
    THEN process_letter_notification(db, id, req)
    ELSE process_sms_or_email_notification(db, id, req)

\* the API serves one request
PostNotification(req) ==
    /\ post.served < MaxPosts
    /\ LET id == post.served + 1
           r == post_notification(post, id, req)
       IN  post' = [r.db EXCEPT !.served = id,
                                !.last = [id |-> id, raised |-> r.raised,
                                          status_code |-> status_code_of(r.raised)]]
    /\ UNCHANGED <<lookup, signing, contact, zendesk, users, session, optin, qvars, rvars>>

PostNext == \E req \in Requests : PostNotification(req)

PostSpec == AtRest /\ [][PostNext]_vars

\* the sms and email requests that reach send_notification_to_queue and
\* find the broker refusing the task
EnqueueFailures ==
    [notification_type : {EMAIL_TYPE, SMS_TYPE},
     body : {"valid"},
     permissions : {{"send"}, {"send", SCHEDULE_NOTIFICATIONS}},
     key_type : {KEY_TYPE_NORMAL},
     scheduled_for : {FALSE},
     rate_limit_exceeded : {FALSE},
     valid_template : {TRUE},
     valid_recipient : {TRUE},
     simulated : {FALSE},
     sqs_fails : {TRUE}]

C22_RateLimitBeforeStore ==
    [][post'.last.raised = "RateLimitError" /\ post'.served # post.served
          => /\ post'.last.status_code = 429
             /\ post'.rows = post.rows
             /\ post'.history = post.history
             /\ post'.scheduled = post.scheduled
             /\ post'.queued = post.queued]_vars

\* an email was accepted and queued; the next request was rejected with 429
\* and left no row and no task
C22_Witness ==
    /\ post.last.id = 2 /\ post.last.status_code = 429
    /\ post.rows[2] = "absent" /\ post.rows[1] = NOTIFICATION_CREATED
    /\ post.queued = {[id |-> 1, task |-> "deliver_email"]}

----------------------------------------------------------------------------
(***************************************************************************)
(* The lookup-contact-info task (app.celery.contact_information_tasks),    *)
(* as tests/app/celery/test_contact_information_tasks.py exercises it.     *)
(***************************************************************************)
\* what va_profile_client.get_email / get_telephone comes to
ContactOutcomes ==
    {"found", "Timeout", "VAProfileRetryableException",
     "VAProfileNonRetryableException", "NoContactInfoException"}

RetryableContactOutcomes == {"Timeout", "VAProfileRetryableException"}
NonRetryableContactOutcomes == {"VAProfileNonRetryableException", "NoContactInfoException"}

\* the failure_reason attribute of an exception class
failure_reason(exception) == <<"failure_reason", exception>>

RETRIES_EXCEEDED == "Retries exceeded"

\* can_retry(self.request.retries, self.max_retries, notification_id)
can_retry(retries, max) == retries < max

\* handle_max_retries_exceeded: the notification becomes a technical failure
handle_max_retries_exceeded(c, n) ==
    [c EXCEPT !.row[n].status = NOTIFICATION_TECHNICAL_FAILURE,
              !.row[n].status_reason = RETRIES_EXCEEDED,
              !.max_retries_handled[n] = @ + 1]

\* (mutant) a missing contact information is retried like a timeout
lookup_contact_info_retry_no_contact(c, n, outcome) ==
    LET t == c.task[n]
    IN  IF outcome \in RetryableContactOutcomes \cup {"NoContactInfoException"}
        THEN IF can_retry(t.retries, MaxContactRetries)
             THEN [c EXCEPT !.task[n].retries = @ + 1,
                            !.task[n].raised = "AutoRetryException"]
             ELSE [handle_max_retries_exceeded(c, n) EXCEPT
                      !.callback_calls[n] = @ + 1,
                      !.task[n].state = "failed",
                      !.task[n].raised = "NotificationTechnicalFailureException"]
        ELSE IF outcome \in NonRetryableContactOutcomes
        THEN [c EXCEPT !.row[n].status = NOTIFICATION_PERMANENT_FAILURE,
                       !.row[n].status_reason = failure_reason(outcome),
                       !.callback_calls[n] = @ + 1,
                       !.task[n].state = "failed",
                       !.task[n].raised = "NotificationPermanentFailureException"]
        ELSE [c EXCEPT !.row[n].to = IF t.notification_type = EMAIL_TYPE
                                     THEN "test@test.org" ELSE "+15555555555",
                       !.task[n].state = "done",
                       !.task[n].raised = None]

\* lookup_contact_info: one run of the task for notification n
lookup_contact_info(c, n, outcome) ==
    LET t == c.task[n]
    IN  IF outcome \in RetryableContactOutcomes
        THEN IF can_retry(t.retries, MaxContactRetries)
             THEN [c EXCEPT !.task[n].retries = @ + 1,
                            !.task[n].raised = "AutoRetryException"]
             ELSE [handle_max_retries_exceeded(c, n) EXCEPT
                      !.callback_calls[n] = @ + 1,
                      !.task[n].state = "failed",
                      !.task[n].raised = "NotificationTechnicalFailureException"]
        ELSE IF outcome \in NonRetryableContactOutcomes
        THEN [c EXCEPT !.row[n].status = NOTIFICATION_PERMANENT_FAILURE,
                       !.row[n].status_reason = failure_reason(outcome),
                       !.callback_calls[n] = @ + 1,
                       !.task[n].state = "failed",
                       !.task[n].raised = "NotificationPermanentFailureException"]
        ELSE [c EXCEPT !.row[n].to = IF t.notification_type = EMAIL_TYPE
                                     THEN "test@test.org" ELSE "+15555555555",
                       !.task[n].state = "done",
                       !.task[n].raised = None]

\* lookup_contact_info.apply_async([notification.id], queue=LOOKUP_CONTACT_INFO)
QueueContactLookup(n, notification_type) ==
    /\ contact.task[n].state = "none"
    /\ \A m \in ContactIds : m < n => contact.task[m].state # "none"
    /\ contact' = [contact EXCEPT !.task[n] =
                      [NoContactTask EXCEPT !.state = "queued",
                                            !.notification_type = notification_type]]
    /\ UNCHANGED <<lookup, signing, post, zendesk, users, session, optin, qvars, rvars>>

\* a worker runs the task; a run that raised AutoRetryException is queued again
LookupContactInfo(n, outcome) ==
    /\ contact.task[n].state = "queued"
    /\ contact' = lookup_contact_info(contact, n, outcome)
    /\ UNCHANGED <<lookup, signing, post, zendesk, users, session, optin, qvars, rvars>>

ContactNext ==
    \/ \E n \in ContactIds, notification_type \in {EMAIL_TYPE, SMS_TYPE} :
          QueueContactLookup(n, notification_type)
    \/ \E n \in ContactIds, outcome \in ContactOutcomes : LookupContactInfo(n, outcome)

ContactSpec == AtRest /\ [][ContactNext]_vars

\* C23: in lookup_contact_info a non-retryable VA Profile failure sets the
\* notification to permanent-failure with the failure_reason of the
\* exception, queues the service callback exactly once, raises
\* NotificationPermanentFailureException and schedules no retry; a retryable
\* failure raises AutoRetryException while a retry is left and leaves the
\* notification alone; with no retry left it is handled once as
\* max-retries-exceeded and raises NotificationTechnicalFailureException.
C23_ContactLookupFailures ==
    /\ [][\A n \in ContactIds, outcome \in ContactOutcomes :
             LookupContactInfo(n, outcome)
                => LET t == contact.task[n]
                       t2 == contact'.task[n]
                   IN  /\ outcome \in NonRetryableContactOutcomes
                             => /\ contact'.row[n].status = NOTIFICATION_PERMANENT_FAILURE
                                /\ contact'.row[n].status_reason = failure_reason(outcome)
                                /\ contact'.callback_calls[n] = contact.callback_calls[n] + 1
                                /\ t2.raised = "NotificationPermanentFailureException"
                                /\ t2.state = "failed" /\ t2.retries = t.retries
                       /\ (outcome \in RetryableContactOutcomes /\ t.retries < MaxContactRetries)
                             => /\ t2.raised = "AutoRetryException"
                                /\ t2.state = "queued" /\ t2.retries = t.retries + 1
                                /\ contact'.row = contact.row
                                /\ contact'.callback_calls = contact.callback_calls
                       /\ (outcome \in RetryableContactOutcomes /\ t.retries = MaxContactRetries)
                             => /\ contact'.max_retries_handled[n] = contact.max_retries_handled[n] + 1
                                /\ t2.raised = "NotificationTechnicalFailureException"
                                /\ t2.state = "failed"]_vars
    /\ [](\A n \in ContactIds :
             /\ contact.callback_calls[n] <= 1
             /\ contact.max_retries_handled[n] <= 1
             /\ contact.task[n].retries <= MaxContactRetries
             /\ contact.task[n].state = "failed" <=> contact.callback_calls[n] = 1)

\* one lookup failed for good at its first run; another used up its retries
\* and was handled as max-retries-exceeded
C23_Witness ==
    \E n, m \in ContactIds :
        /\ contact.task[n].raised = "NotificationPermanentFailureException"
        /\ contact.task[n].retries = 0 /\ contact.callback_calls[n] = 1
        /\ contact.row[n].status = NOTIFICATION_PERMANENT_FAILURE
        /\ contact.row[n].status_reason = failure_reason("NoContactInfoException")
        /\ contact.task[m].raised = "NotificationTechnicalFailureException"
        /\ contact.task[m].retries = MaxContactRetries
        /\ contact.max_retries_handled[m] = 1

----------------------------------------------------------------------------
(***************************************************************************)
(* ZenDeskSell.send_create_service (app/clients/zendesk_sell.py).  The     *)
(* contact of user u has id u; a deal is the pair of its contact and the   *)
(* service, one service per user.  A request to Zendesk either succeeds    *)
(* with a valid answer, succeeds with an answer that fails the validation  *)
(* of the response, or raises RequestException.                            *)
(***************************************************************************)
ZendeskResponses == {"ok", "invalid", "RequestException"}

\* a User object, and an int passed where a User is expected
User(u) == [type |-> "User", email_address |-> u]
PyInt(i) == [type |-> "int", value |-> i]

\* upsert_contact(user): Zendesk afterwards, the pair (contact_id, is_created)
\* and what the call raised; an int has no email_address
upsert_contact(z, user, configured, response) ==
    IF ~configured
    THEN [z |-> z, contact_id |-> NoId, is_created |-> FALSE, raised |-> None]
    ELSE IF user.type # "User"
    THEN [z |-> z, contact_id |-> NoId, is_created |-> FALSE, raised |-> "AttributeError"]
    ELSE IF response = "RequestException"
    THEN [z |-> z, contact_id |-> NoId, is_created |-> FALSE, raised |-> None]
    ELSE LET u == user.email_address
             upserted == [z EXCEPT !.contacts = @ \cup {u}]
         IN  IF response = "invalid"
             THEN [z |-> upserted, contact_id |-> NoId, is_created |-> FALSE, raised |-> None]
             ELSE [z |-> upserted, contact_id |-> u, is_created |-> u \notin z.contacts,
                   raised |-> None]

\* upsert_deal(contact_id, service, stage_id): Zendesk afterwards and the deal id
upsert_deal(z, contact_id, configured, response) ==
    IF ~configured THEN [z |-> z, deal_id |-> NoId]
    ELSE IF response = "RequestException" THEN [z |-> z, deal_id |-> NoId]
    ELSE LET upserted == [z EXCEPT !.deals = @ \cup {contact_id}]
         IN  IF response = "invalid"
             THEN [z |-> upserted, deal_id |-> NoId]
             ELSE [z |-> upserted, deal_id |-> contact_id]

\* send_create_service(service, user): Zendesk afterwards and what the call
\* returned or raised.  When the deal fails for a contact that was created,
\* the code calls upsert_contact(contact_id).
send_create_service(z, u, configured, contact_response, deal_response) ==
    LET c == upsert_contact(z, User(u), configured, contact_response)
    IN  IF c.contact_id = NoId
        THEN [z |-> c.z, call |-> [NoZendeskCall EXCEPT !.user = u,
                                       !.existed = u \in z.contacts, !.ret = "False"]]
        ELSE LET d == upsert_deal(c.z, c.contact_id, configured, deal_response)
                 call == [user |-> u, existed |-> u \in z.contacts,
                          contact_id |-> c.contact_id, is_created |-> c.is_created,
                          deal_attempted |-> TRUE, deal_id |-> d.deal_id, ret |-> None]
             IN  IF d.deal_id = NoId /\ c.is_created
                 THEN LET again == upsert_contact(d.z, PyInt(c.contact_id), configured,
                                                  contact_response)
                      IN  [z |-> again.z,
                           call |-> [call EXCEPT !.ret = IF again.raised # None
                                                         THEN again.raised ELSE "False"]]
                 ELSE [z |-> d.z, call |-> [call EXCEPT !.ret = "True"]]

\* a user creates a service
SendCreateService(user, configured, contact_response, deal_response) ==
    /\ zendesk.calls < MaxZendeskCalls
    /\ LET r == send_create_service(zendesk, user, configured, contact_response, deal_response)
       IN  zendesk' = [r.z EXCEPT !.calls = @ + 1, !.last = r.call]
    /\ UNCHANGED <<lookup, signing, post, contact, users, session, optin, qvars, rvars>>

ZendeskNext ==
    \E user \in ZendeskUsers, configured \in BOOLEAN,
       contact_response \in ZendeskResponses, deal_response \in ZendeskResponses :
          SendCreateService(user, configured, contact_response, deal_response)

ZendeskSpec == AtRest /\ [][ZendeskNext]_vars

\* C24: send_create_service upserts a deal only after the contact upsert
\* succeeded; if the deal upsert fails, the contact is gone afterwards if and
\* only if it was created by this call; and the call returns True only when
\* both upserts succeeded.
C24_DealAfterContactAndCleanup ==
    LET call == zendesk.last
    IN  call.user # 0
           => /\ call.deal_attempted => call.contact_id # NoId
              /\ (call.deal_attempted /\ call.deal_id = NoId)
                    => (call.user \notin zendesk.contacts <=> call.is_created)
              /\ call.ret = "True" => (call.contact_id # NoId /\ call.deal_id # NoId)

----------------------------------------------------------------------------
(***************************************************************************)
(* The verify codes of a user (app/user/rest.py): send_user_2fa_code,      *)
(* which reads the codes twice before it creates one, and                  *)
(* verify_user_code.  users.codes is the VerifyCode table of the user,     *)
(* oldest first; a code is named by its position.                          *)
(***************************************************************************)
\* timedelta(seconds=10) and the default age of verify_within_time, in ticks
TEN_SECONDS == 1
THIRTY_SECONDS == 3

CodeIds == 1 .. MaxCodes

\* count_user_verify_codes: the codes that are neither expired nor used
count_user_verify_codes(u) ==
    Cardinality({c \in DOMAIN u.codes : ~u.codes[c].expired /\ ~u.codes[c].code_used})

\* verify_within_time: the codes created less than age ago
verify_within_time(u, age) ==
    Cardinality({c \in DOMAIN u.codes : u.codes[c].created_at > u.now - age})

\* create_user_code
create_user_code(u) ==
    [u EXCEPT !.codes = Append(@, [created_at |-> u.now, expired |-> FALSE, code_used |-> FALSE])]

\* get_user_code: the code the user holds that matches, or None (0)
get_user_code(u, code) == IF code \in DOMAIN u.codes THEN code ELSE 0

increment_failed_login_count(u) == [u EXCEPT !.failed_login_count = @ + 1]

use_user_code(u, code) == [u EXCEPT !.codes[code].code_used = TRUE]

\* the answer of a request
Answer(u, code, status_code, message) ==
    [u EXCEPT !.last = [code |-> code, status_code |-> status_code, message |-> message]]

\* (mutant) the code is not marked as used
verify_user_code_reusable(u, submitted, valid) ==
    LET code == get_user_code(u, submitted)
    IN  IF ~valid THEN Answer(u, submitted, 400, "ValidationError")
        ELSE IF verify_within_time(u, THIRTY_SECONDS) >= 2
        THEN Answer(u, submitted, 400, "Code already sent")
        ELSE IF u.failed_login_count >= MAX_VERIFY_CODE_COUNT
        THEN Answer(u, submitted, 404, "Code not found")
        ELSE IF code = 0
        THEN Answer(increment_failed_login_count(u), submitted, 404, "Code not found")
        ELSE IF u.codes[code].expired
        THEN Answer(increment_failed_login_count(u), submitted, 400, "Code has expired")
        ELSE IF u.codes[code].code_used
        THEN Answer(increment_failed_login_count(u), submitted, 400, "Code has already been used")
        ELSE Answer([u EXCEPT !.failed_login_count = 0], submitted, 204, None)

\* verify_user_code: the user and the codes afterwards, and the answer
verify_user_code(u, submitted, valid) ==
    LET code == get_user_code(u, submitted)
    IN  IF ~valid THEN Answer(u, submitted, 400, "ValidationError")
        ELSE IF verify_within_time(u, THIRTY_SECONDS) >= 2
        THEN Answer(u, submitted, 400, "Code already sent")
        ELSE IF u.failed_login_count >= MAX_VERIFY_CODE_COUNT
        THEN Answer(u, submitted, 404, "Code not found")
        ELSE IF code = 0
        THEN Answer(increment_failed_login_count(u), submitted, 404, "Code not found")
        ELSE IF u.codes[code].expired
        THEN Answer(increment_failed_login_count(u), submitted, 400, "Code has expired")
        ELSE IF u.codes[code].code_used
        THEN Answer(increment_failed_login_count(u), submitted, 400, "Code has already been used")
        ELSE Answer(use_user_code([u EXCEPT !.failed_login_count = 0], code),
                    submitted, 204, None)

\* POST /<user_id>/verify/code
VerifyUserCode(submitted, valid) ==
    /\ users' = verify_user_code(users, submitted, valid)
    /\ UNCHANGED <<lookup, signing, post, contact, zendesk, session, optin, qvars, rvars>>

\* send_user_2fa_code, first query: count_user_verify_codes
Send2faCount(p) ==
    /\ users.pc[p] = "idle"
    /\ Len(users.codes) + Cardinality({q \in Requesters : users.pc[q] # "idle"}) < MaxCodes
    /\ users' = [users EXCEPT !.pc[p] =
                    IF count_user_verify_codes(users) >= MAX_VERIFY_CODE_COUNT
                    THEN "idle" ELSE "counted"]
    /\ UNCHANGED <<lookup, signing, post, contact, zendesk, session, optin, qvars, rvars>>

\* send_user_2fa_code, second query: verify_within_time(age=10 seconds)
Send2faWithinTime(p) ==
    /\ users.pc[p] = "counted"
    /\ users' = [users EXCEPT !.pc[p] =
                    IF verify_within_time(users, TEN_SECONDS) >= 1
                    THEN "idle" ELSE "create"]
    /\ UNCHANGED <<lookup, signing, post, contact, zendesk, session, optin, qvars, rvars>>

\* send_user_2fa_code, the else branch: send_user_sms_code or
\* send_user_email_code create the code and queue its notification; any
\* other code type is answered with 404
Send2faCreate(p, code_type) ==
    /\ users.pc[p] = "create"
    /\ users' = IF code_type \in {SMS_TYPE, EMAIL_TYPE}
                THEN [create_user_code(users) EXCEPT !.pc[p] = "idle", !.queued = @ + 1]
                ELSE [users EXCEPT !.pc[p] = "idle"]
    /\ UNCHANGED <<lookup, signing, post, contact, zendesk, session, optin, qvars, rvars>>

\* ten seconds pass
Tick ==
    /\ users.now < MaxTime
    /\ users' = [users EXCEPT !.now = @ + 1]
    /\ UNCHANGED <<lookup, signing, post, contact, zendesk, session, optin, qvars, rvars>>

\* the expiry_datetime of the oldest code that has not expired passes
Expire(c) ==
    /\ c \in DOMAIN users.codes
    /\ ~users.codes[c].expired
    /\ \A older \in 1 .. c - 1 : users.codes[older].expired
    /\ users.codes[c].created_at <= users.now - THIRTY_SECONDS
    /\ users' = [users EXCEPT !.codes[c].expired = TRUE]
    /\ UNCHANGED <<lookup, signing, post, contact, zendesk, session, optin, qvars, rvars>>

UsersNext ==
    \/ \E p \in Requesters : Send2faCount(p)
    \/ \E p \in Requesters : Send2faWithinTime(p)
    \/ \E p \in Requesters, code_type \in {SMS_TYPE, EMAIL_TYPE, LETTER_TYPE} :
          Send2faCreate(p, code_type)
    \/ \E submitted \in 0 .. MaxCodes, valid \in BOOLEAN : VerifyUserCode(submitted, valid)
    \/ Tick
    \/ \E c \in CodeIds : Expire(c)

UsersSpec == AtRest /\ [][UsersNext]_vars

\* C25: a user never has more than MAX_VERIFY_CODE_COUNT active verify
\* codes (codes that are neither expired nor used) at a time, whatever the
\* interleaving of the concurrent send_user_2fa_code requests for the user.
C25_ActiveCodesBounded == count_user_verify_codes(users) <= MAX_VERIFY_CODE_COUNT

\* a verification of a code the user does not hold, or of a code that is
\* expired or used
Unusable(u, submitted) ==
    \/ submitted \notin DOMAIN u.codes
    \/ u.codes[submitted].expired
    \/ u.codes[submitted].code_used

\* verify_user_code succeeds only for an existing, unexpired, unused code
\* while failed_login_count is below MAX_VERIFY_CODE_COUNT; on success it
\* marks the code used and resets failed_login_count; a used code stays used
SucceedsOnce ==
    /\ [][\A submitted \in 0 .. MaxCodes, valid \in BOOLEAN :
             (VerifyUserCode(submitted, valid) /\ users'.last.status_code = 204)
                => /\ ~Unusable(users, submitted)
                   /\ users.failed_login_count < MAX_VERIFY_CODE_COUNT
                   /\ users'.codes[submitted].code_used
                   /\ users'.failed_login_count = 0]_vars
    /\ [][\A submitted \in 0 .. MaxCodes, valid \in BOOLEAN :
             (VerifyUserCode(submitted, valid) /\ submitted \in DOMAIN users.codes
                 /\ users.codes[submitted].code_used)
                => users'.last.status_code # 204]_vars
    /\ [][\A c \in DOMAIN users.codes : users.codes[c].code_used => users'.codes[c].code_used]_vars

\* C30 (as stated): a verify code can be used successfully at most once, and
\* each failed verification of a missing, expired or used code increments
\* failed_login_count by one.
C30_UsedAtMostOnceAndFailuresCounted ==
    /\ SucceedsOnce
    /\ [][\A submitted \in 0 .. MaxCodes :
             (VerifyUserCode(submitted, TRUE) /\ Unusable(users, submitted))
                => users'.failed_login_count = users.failed_login_count + 1]_vars

\* C30 (amended): a verify code can be used successfully at most once, and
\* each failed verification of a missing, expired or used code increments
\* failed_login_count by one when fewer than two codes were created for the
\* user in the last 30 seconds and failed_login_count is below
\* MAX_VERIFY_CODE_COUNT; otherwise it leaves failed_login_count as it is.
C30_UsedAtMostOnceAndFailuresCountedBelowLimit ==
    /\ SucceedsOnce
    /\ [][\A submitted \in 0 .. MaxCodes :
             (VerifyUserCode(submitted, TRUE) /\ Unusable(users, submitted))
                => IF /\ verify_within_time(users, THIRTY_SECONDS) < 2
                      /\ users.failed_login_count < MAX_VERIFY_CODE_COUNT
                   THEN users'.failed_login_count = users.failed_login_count + 1
                   ELSE users'.failed_login_count = users.failed_login_count]_vars

\* a code was used to log in, and the next verification with the same code
\* failed and was counted
C30_Witness ==
    /\ Len(users.codes) >= 1 /\ users.codes[1].code_used
    /\ users.last.code = 1 /\ users.last.status_code = 400
    /\ users.last.message = "Code has already been used"
    /\ users.failed_login_count = 1

----------------------------------------------------------------------------
(***************************************************************************)
(* ExplicitRoutingSession (app/dbsetup.py).  An engine is named by its     *)
(* bind; session.returned lists the binds get_bind returned, oldest first. *)
(***************************************************************************)
Binds == {"reader", "writer"}

\* load_balance: the bind of the engine returned and the session afterwards
load_balance(s) ==
    IF s._name # None /\ ~s._flushing
    THEN [bind |-> s._name, session |-> [s EXCEPT !._name = None]]
    ELSE [bind |-> "writer", session |-> s]

\* get_bind: the result of super().get_bind is dropped when the binds are
\* not configured, and load_balance answers in both cases
get_bind(s, binds_setup) == load_balance(s)

\* session.using_bind(name)
UsingBind(name) ==
    /\ session' = [session EXCEPT !._name = name]
    /\ UNCHANGED <<lookup, signing, post, contact, zendesk, users, optin, qvars, rvars>>

\* session.get_bind()
GetBind(binds_setup) ==
    /\ Len(session.returned) < MaxBindCalls
    /\ LET r == get_bind(session, binds_setup)
       IN  session' = [r.session EXCEPT !.returned = Append(@, r.bind)]
    /\ UNCHANGED <<lookup, signing, post, contact, zendesk, users, optin, qvars, rvars>>

\* SQLAlchemy enters and leaves Session.flush
BeginFlush ==
    /\ ~session._flushing
    /\ session' = [session EXCEPT !._flushing = TRUE]
    /\ UNCHANGED <<lookup, signing, post, contact, zendesk, users, optin, qvars, rvars>>

EndFlush ==
    /\ session._flushing
    /\ session' = [session EXCEPT !._flushing = FALSE]
    /\ UNCHANGED <<lookup, signing, post, contact, zendesk, users, optin, qvars, rvars>>

SessionNext ==
    \/ \E name \in Binds : UsingBind(name)
    \/ \E binds_setup \in BOOLEAN : GetBind(binds_setup)
    \/ BeginFlush
    \/ EndFlush

SessionSpec == AtRest /\ [][SessionNext]_vars

\* C26: get_bind routes to the bind named with using_bind, and returns the
\* reader bind if none was named; a name applies to exactly the next
\* get_bind call made outside a flush and is then cleared (a call made
\* during a flush leaves the name in place).
C26_ExplicitRouting ==
    [][\A binds_setup \in BOOLEAN :
          GetBind(binds_setup)
             => LET bind == session'.returned[Len(session'.returned)]
                IN  /\ (session._name # None /\ ~session._flushing)
                          => (bind = session._name /\ session'._name = None)
                    /\ session._name = None => bind = "reader"
                    /\ session._flushing => session'._name = session._name]_vars

----------------------------------------------------------------------------
(***************************************************************************)
(* va_profile_opt_in_out_lambda_handler                                    *)
(* (lambda_functions/va_profile/va_profile_opt_in_out_lambda.py).          *)
(* A record of the bios says whether its txAuditId is the event's, whether *)
(* it has the attributes the stored function is called with, and what the  *)
(* database does if it is asked: the function returns true or false, the   *)
(* query raises, or no connection can be made.  The database is not asked  *)
(* for every record; db is "unasked" for those the handler does not reach  *)
(* the database with.                                                      *)
(***************************************************************************)
DbOutcomes == {"true", "false", "Error", "NoConnection"}

BiosRecords ==
    [tx_matches : BOOLEAN, complete : {FALSE}, db : {"unasked"}]
    \cup [tx_matches : {FALSE}, complete : {TRUE}, db : {"unasked"}]
    \cup [tx_matches : {TRUE}, complete : {TRUE}, db : DbOutcomes]

BiosOfLen(n) == [1 .. n -> BiosRecords]

\* an event; ok means it has txAuditId and a list as bios
Events == [ok : BOOLEAN, bios : UNION {BiosOfLen(n) : n \in 0 .. MaxRecords}]

\* (mutant) an exception other than KeyError always sets 500
process_record_500_wins(acc, record, i) ==
    IF ~record.tx_matches
    THEN [acc EXCEPT !.bios = Append(@, "COMPLETED_FAILURE")]
    ELSE IF ~record.complete
    THEN [acc EXCEPT !.statusCode = 400, !.bios = Append(@, "COMPLETED_FAILURE")]
    ELSE IF record.db = "NoConnection"
    THEN [acc EXCEPT !.db_connection = None,
                     !.statusCode = 500,
                     !.bios = Append(@, "COMPLETED_FAILURE")]
    ELSE IF record.db = "Error"
    THEN [acc EXCEPT !.db_connection = "connection",
                     !.queried = @ \cup {i},
                     !.statusCode = 500,
                     !.bios = Append(@, "COMPLETED_FAILURE")]
    ELSE [acc EXCEPT !.db_connection = "connection",
                     !.queried = @ \cup {i},
                     !.bios = Append(@, IF record.db = "true" THEN "COMPLETED_SUCCESS"
                                        ELSE "COMPLETED_NOOP")]

\* the body of the loop over event["bios"] for the record at position i
process_record(acc, record, i) ==
    IF ~record.tx_matches
    THEN [acc EXCEPT !.bios = Append(@, "COMPLETED_FAILURE")]
    ELSE IF ~record.complete
    THEN [acc EXCEPT !.statusCode = 400, !.bios = Append(@, "COMPLETED_FAILURE")]
    ELSE IF record.db = "NoConnection"
    THEN [acc EXCEPT !.db_connection = None,
                     !.statusCode = IF @ # 400 THEN 500 ELSE @,
                     !.bios = Append(@, "COMPLETED_FAILURE")]
    ELSE IF record.db = "Error"
    THEN [acc EXCEPT !.db_connection = "connection",
                     !.queried = @ \cup {i},
                     !.statusCode = IF @ # 400 THEN 500 ELSE @,
                     !.bios = Append(@, "COMPLETED_FAILURE")]
    ELSE [acc EXCEPT !.db_connection = "connection",
                     !.queried = @ \cup {i},
                     !.bios = Append(@, IF record.db = "true" THEN "COMPLETED_SUCCESS"
                                        ELSE "COMPLETED_NOOP")]

\* the loop over event["bios"], from position i on
RECURSIVE process_bios(_, _, _)
process_bios(acc, bios, i) ==
    IF i > Len(bios) THEN acc
    ELSE process_bios(process_record(acc, bios[i], i), bios, i + 1)

\* va_profile_opt_in_out_lambda_handler: the response, the bios of the put
\* request body, the records the database was queried for, whether the PUT
\* request was made, and db_connection afterwards
va_profile_opt_in_out_lambda_handler(event, db_connection, pem) ==
    IF ~event.ok
    THEN [statusCode |-> 400, bios |-> <<>>, queried |-> {}, put |-> FALSE,
          db_connection |-> db_connection]
    ELSE LET done == process_bios([statusCode |-> 200, bios |-> <<>>, queried |-> {},
                                   put |-> FALSE, db_connection |-> db_connection],
                                  event.bios, 1)
         IN  [done EXCEPT !.put = Len(done.bios) > 0 /\ pem]

\* the API gateway invokes the lambda
InvokeLambda(event, pem) ==
    /\ LET r == va_profile_opt_in_out_lambda_handler(event, optin.db_connection, pem)
       IN  optin' = [db_connection |-> r.db_connection,
                     last |-> [invoked |-> TRUE, event |-> event, statusCode |-> r.statusCode,
                               bios |-> r.bios, queried |-> r.queried, put |-> r.put]]
    /\ UNCHANGED <<lookup, signing, post, contact, zendesk, users, session, qvars, rvars>>

OptInNext == \E event \in Events, pem \in BOOLEAN : InvokeLambda(event, pem)

OptInSpec == AtRest /\ [][OptInNext]_vars

\* the positions of the records of the last event
Positions == DOMAIN optin.last.event.bios
RecordAt(i) == optin.last.event.bios[i]
Raises(i) == RecordAt(i).tx_matches /\ RecordAt(i).complete
                /\ RecordAt(i).db \in {"Error", "NoConnection"}

====
